---- MODULE Spec2Model ----
(***************************************************************************)
(* The track matcher of plexify (package plex): the similarity scorer      *)
(* calculateStringSimilarity, the text normalizers and the match selector  *)
(* FindBestMatch, translated from src/plex/client_test.go (the file holds  *)
(* the package's client source from line 3680 on).                         *)
(*                                                                         *)
(* Strings are TLA+ strings; a Go string index is a position in the string *)
(* and len(s) is ByteLen(s), the UTF-8 length.  float64 scores are exact   *)
(* rationals <<n, d>> in lowest terms with d > 0.                          *)
(***************************************************************************)
EXTENDS Integers, Sequences, FiniteSets, TLC

VARIABLES
    s1, s2,               \* calculateStringSimilarity: the two arguments
    simPc,                \* "call" before the call, "ret" after it
    simResult,            \* the returned similarity
    simMatching,          \* matchingWords when the word step ran, else -1
    tracks, title, artist,\* FindBestMatch: the arguments
    pc,                   \* position in FindBestMatch
    idx,                  \* number of range iterations completed in the current loop
    track,                \* the range variable of the current loop
    bestMatch,            \* *PlexTrack: Nil, or <<t>> pointing to the copy t
    bestScore,
    bestArtistSimilarity,
    result,               \* the returned *PlexTrack: Nil, or <<t>> pointing to t
    matchType,            \* MatchSpotifyPlaylist: the match type SearchTrack returned
    confidence,           \* the Confidence of the MatchResult
    normFn,               \* a normalizer call: the name of the normalizer
    normIn,               \* its argument
    normOut,              \* its result
    normAgain,            \* the result of the normalizer applied to normOut
    normPc,               \* "call", "ret" after the call, "again" after the second
    songs,                \* MatchSpotifyPlaylist: the songs of the Spotify playlist
    results,              \* the MatchResults built so far, one per song searched
    matchedTrackIDs,
    queries,              \* the requests of the SearchTrack call at hand, in order
    failed,               \* has a request of that call failed
    playlistBefore,       \* the Plex playlist of this name as it was before the call
    playlistExists,       \* is there a Plex playlist of this name
    playlistTracks,       \* the tracks it holds
    requests,             \* the playlist requests issued, each with its outcome
    artworkURL,
    successCount,         \* AddTracksToPlaylist: the tracks added
    added,                \* AddTracksToPlaylist: the range iterations completed
    syncPc,               \* position in MatchSpotifyPlaylist
    syncErr,              \* the returned error: "nil", or the call that failed
    sysEnv,               \* LoadWithOverrides: the system environment at process start
    envFileExists,        \* is there a .env file
    envFile,              \* the variables the .env file sets
    overrides,            \* the CLI flag overrides
    environ,              \* the process environment os.Getenv reads
    config,               \* the Config being built
    cfgPc,                \* position in LoadWithOverrides
    cfgErr,               \* the returned error: "nil", or the validation error
    mbSongs,              \* PopulateMusicBrainzIDs: the slice songs
    mbLog,                \* the MusicBrainz lookups made, each with its answer
    mbIdx,                \* the range iterations completed
    mbPc,                 \* position in PopulateMusicBrainzIDs
    playlistMetas,        \* processPlaylists: the IDs of the playlists to process
    attempted,            \* the playlists processPlaylist was called for, in order
    logged,               \* the playlists whose failure was logged
    playlistIndex,        \* the range iterations completed
    ppPc,                 \* position in processPlaylists and processPlaylist
    ppErr                 \* the error processPlaylists returned: "nil" or its text

simVars == <<s1, s2, simPc, simResult, simMatching>>
fbmVars == <<tracks, title, artist, pc, idx, track, bestMatch, bestScore,
             bestArtistSimilarity, result>>
confVars == <<matchType, confidence>>
normVars == <<normFn, normIn, normOut, normAgain, normPc>>
syncVars == <<songs, results, matchedTrackIDs, queries, failed, playlistBefore,
              playlistExists, playlistTracks, requests, artworkURL, successCount, added,
              syncPc, syncErr>>
cfgVars == <<sysEnv, envFileExists, envFile, overrides, environ, config, cfgPc, cfgErr>>
mbVars == <<mbSongs, mbLog, mbIdx, mbPc>>
ppVars == <<playlistMetas, attempted, logged, playlistIndex, ppPc, ppErr>>
runVars == <<syncVars, cfgVars, mbVars, ppVars>>
matcherVars == <<fbmVars, simVars, confVars, normVars>>
vars == <<s1, s2, simPc, simResult, simMatching, tracks, title, artist, pc, idx,
          track, bestMatch, bestScore, bestArtistSimilarity, result, matchType, confidence,
          normFn, normIn, normOut, normAgain, normPc, runVars>>

----------------------------------------------------------------------------
(* Bounds *)

\* longest argument of calculateStringSimilarity drawn in SimSpec
MaxLen == 4
\* longest candidate list handed to FindBestMatch in Spec
MaxTracks == 3
\* most pieces in the argument of a normalizer in NormSpec
MaxTokens == 4
\* most characters in the argument of a character-wise normalizer in NormSpec
MaxChars == 2
\* most songs in the playlist handed to MatchSpotifyPlaylist in SyncSpec
MaxSongs == 2
\* the longest list of playlists given to processPlaylists
MaxPlaylists == 3

----------------------------------------------------------------------------
(* Rationals standing for float64 values *)

RECURSIVE Gcd(_, _)
Gcd(a, b) == IF b = 0 THEN a ELSE Gcd(b, a % b)

Rat(n, d) == LET g == Gcd(n, d) IN IF n = 0 THEN <<0, 1>> ELSE <<n \div g, d \div g>>

Zero == <<0, 1>>
One == <<1, 1>>

RLess(x, y) == x[1] * y[2] < y[1] * x[2]
RLeq(x, y) == x[1] * y[2] <= y[1] * x[2]
RAdd(x, y) == Rat(x[1] * y[2] + y[1] * x[2], x[2] * y[2])
RMul(x, y) == Rat(x[1] * y[1], x[2] * y[2])
RMax(x, y) == IF RLess(x, y) THEN y ELSE x

max(a, b) == IF a > b THEN a ELSE b
abs(x) == IF x < 0 THEN -x ELSE x

----------------------------------------------------------------------------
(* Strings *)

At(s, i) == SubSeq(s, i, i)
Take(s, n) == SubSeq(s, 1, n)
Drop(s, n) == SubSeq(s, n + 1, Len(s))


\* TLC stores a string of a queued state with one byte per character and reads
\* the bytes above 0x7F back as U+FF80..U+FFFF, so only ASCII and that range
\* survive in a state.  A character U+00xx above ASCII is therefore written as
\* U+FFxx (U+00E9 as U+FFE9, U+00D7 as U+FFD7; U+00FD as U+FFE6 and U+00FF as
\* U+FFF0, their own images being no characters), and a character above
\* U+00FF, and the grave accent, as a symbol of that range that stands for it
\* and occurs nowhere else in the model.
GRAVE == "ﾸ"      \* U+0060 grave accent (one byte)
HYPHEN == "ﾬ"     \* U+2010 hyphen
ENDASH == "ﾯ"     \* U+2013 en dash
EMDASH == "ﾱ"     \* U+2014 em dash
HBAR == "ﾦ"       \* U+2015 horizontal bar
LSQUO == "ﾹ"      \* U+2018 left single quotation mark
RSQUO == "ﾴ"      \* U+2019 right single quotation mark
PRIME == "ﾨ"      \* U+2032 prime
LDQUO == "ﾫ"      \* U+201C left double quotation mark
RDQUO == "ﾻ"      \* U+201D right double quotation mark
ELLIPSIS == "ﾷ"   \* U+2026 horizontal ellipsis
ASTROKE == "ﾢ"    \* U+023A capital A with stroke (two bytes)
ASTROKELOW == "ﾣ" \* U+2C65 small a with stroke, its lower-case form (three bytes)
BROKEN == "ﾤ"     \* the leading bytes of a character that a slice cut in two

\* the letters of U+0080..U+00FF with their lower-case forms, and the upper-case
\* ASCII letters (unicode.ToLower on the characters the model uses)
UpperChars == "ABCDEFGHIJKLMNOPQRSTUVWXYZ￁￀ￂￃￄￅ￉￈ￊￋￍￌￎￏￓￒￔￕￖ￘ￚ￙ￛￜ￝￑ￇﾢ"
LowerChars == "abcdefghijklmnopqrstuvwxyz￡￠￢￣￤￥￩￨￪￫￭￬￮￯￳￲￴￵￶￸￺￹￻￼￦￱￧ﾣ"

\* UTF-8 widths: U+0080..U+07FF take two bytes, the stood-for characters three
TwoByteChars == "ￗ￰￁￀ￂￃￄￅ￉￈ￊￋￍￌￎￏￓￒￔￕￖ￘ￚ￙ￛￜ￝￑ￇ￡￠￢￣￤￥￩￨￪￫￭￬￮￯￳￲￴￵￶￸￺￹￻￼￦￱￧ﾢ"
ThreeByteChars == "ﾬﾯﾱﾦﾹﾴﾨﾫﾻﾷﾣ"

TwoByteSet == {SubSeq(TwoByteChars, k, k) : k \in 1..Len(TwoByteChars)}
ThreeByteSet == {SubSeq(ThreeByteChars, k, k) : k \in 1..Len(ThreeByteChars)}

ByteWidth(c) == IF c \in TwoByteSet THEN 2 ELSE IF c \in ThreeByteSet THEN 3 ELSE 1

RECURSIVE ByteLen(_)
ByteLen(s) == IF s = "" THEN 0 ELSE ByteWidth(Head(s)) + ByteLen(Tail(s))

\* unicode.IsSpace, on the characters the model uses
IsSpace(c) == c = " " \/ c = "\t"

HasPrefix(s, p) == Len(p) <= Len(s) /\ Take(s, Len(p)) = p
HasSuffix(s, p) == Len(p) <= Len(s) /\ Drop(s, Len(s) - Len(p)) = p

\* strings.Index and strings.LastIndex, 1-based; 0 stands for -1
MatchesAt(s, p, i) == i + Len(p) - 1 <= Len(s) /\ SubSeq(s, i, i + Len(p) - 1) = p
Occurrences(s, p) == {i \in 1..(Len(s) + 1) : MatchesAt(s, p, i)}
Contains(s, p) == Occurrences(s, p) /= {}
Index(s, p) == IF Contains(s, p) THEN CHOOSE i \in Occurrences(s, p) : \A j \in Occurrences(s, p) : i <= j ELSE 0
LastIndex(s, p) == IF Contains(s, p) THEN CHOOSE i \in Occurrences(s, p) : \A j \in Occurrences(s, p) : i >= j ELSE 0

RECURSIVE TrimLeft(_)
TrimLeft(s) == IF s /= "" /\ IsSpace(Head(s)) THEN TrimLeft(Tail(s)) ELSE s

RECURSIVE TrimRight(_)
TrimRight(s) == IF s /= "" /\ IsSpace(At(s, Len(s))) THEN TrimRight(Take(s, Len(s) - 1)) ELSE s

TrimSpace(s) == TrimRight(TrimLeft(s))

TrimSuffix(s, p) == IF HasSuffix(s, p) THEN Take(s, Len(s) - Len(p)) ELSE s

\* strings.Fields: the maximal runs of non-space characters, in order
RECURSIVE FieldsFrom(_, _)
FieldsFrom(s, word) ==
    IF s = "" THEN (IF word = "" THEN <<>> ELSE <<word>>)
    ELSE IF IsSpace(Head(s))
         THEN (IF word = "" THEN <<>> ELSE <<word>>) \o FieldsFrom(Tail(s), "")
         ELSE FieldsFrom(Tail(s), word \o Head(s))

Fields(s) == FieldsFrom(s, "")

\* the outcome of a call that ends in "panic: slice bounds out of range"
PANIC == "panic: slice bounds out of range"

\* the characters of s that lie within its first n bytes (n <= len(s))
RECURSIVE ByteTake(_, _)
ByteTake(s, n) ==
    IF n <= 0 \/ s = "" THEN ""
    ELSE IF ByteWidth(Head(s)) <= n THEN Head(s) \o ByteTake(Tail(s), n - ByteWidth(Head(s)))
    ELSE BROKEN

\* s[:i] where i is the byte offset in lowerS of its p-th character: lowerS is
\* strings.ToLower(s), whose byte offsets are those of s only while lower-casing
\* keeps the width of every character
SliceBefore(s, lowerS, p) ==
    LET i == ByteLen(Take(lowerS, p - 1))
    IN IF i > ByteLen(s) THEN PANIC ELSE ByteTake(s, i)

----------------------------------------------------------------------------
(* Text normalizers *)

\* the function that takes the k-th character of from to the k-th character of to
\* (merging with the empty function makes TLC compute it once)
CharMap(from, to) == [c \in {At(from, k) : k \in 1..Len(from)} |->
                        At(to, CHOOSE k \in 1..Len(from) : At(from, k) = c)] @@ <<>>

LowerMap == CharMap(UpperChars, LowerChars)

ToLowerChar(c) == IF c \in DOMAIN LowerMap THEN LowerMap[c] ELSE c

RECURSIVE ToLower(_)
ToLower(s) == IF s = "" THEN "" ELSE ToLowerChar(Head(s)) \o ToLower(Tail(s))

\* the regexp classes \s, \d and \w (ASCII only)
IsReSpace(c) == c = " " \/ c = "\t"
Digits == {"0", "1", "2", "3", "4", "5", "6", "7", "8", "9"}
WordChars == {At("abcdefghijklmnopqrstuvwxyzABCDEFGHIJKLMNOPQRSTUVWXYZ0123456789_", k) : k \in 1..63}
IsDigit(c) == c \in Digits
IsWordChar(c) == c \in WordChars

\* ReplaceAllString(s, "") for the regexp  open [^close]* close
RECURSIVE RemoveSpans(_, _, _)
RemoveSpans(s, open, close) ==
    IF s = "" THEN ""
    ELSE IF Head(s) = open /\ Contains(Tail(s), close)
         THEN RemoveSpans(Drop(Tail(s), Index(Tail(s), close)), open, close)
         ELSE Head(s) \o RemoveSpans(Tail(s), open, close)

\* ReplaceAllString(s, " ") for the regexp \s+
RECURSIVE CollapseSpaces(_)
CollapseSpaces(s) ==
    IF s = "" THEN ""
    ELSE IF IsReSpace(Head(s))
         THEN IF Len(s) > 1 /\ IsReSpace(At(s, 2))
              THEN CollapseSpaces(Tail(s))
              ELSE " " \o CollapseSpaces(Tail(s))
         ELSE Head(s) \o CollapseSpaces(Tail(s))

removeBrackets(s) ==
    LET a == RemoveSpans(s, "(", ")")
        b == RemoveSpans(a, "[", "]")
        c == RemoveSpans(b, "{", "}")
    IN CollapseSpaces(TrimSpace(c))

FeaturingPatterns == <<" featuring ", " feat. ", " feat ", " ft. ", " ft ">>

\* the first pattern of the list, in list order, that occurs in lowerS decides
FirstPatternIn(lowerS, patterns) ==
    IF \E k \in 1..Len(patterns) : Contains(lowerS, patterns[k])
    THEN CHOOSE k \in 1..Len(patterns) :
            /\ Contains(lowerS, patterns[k])
            /\ \A j \in 1..(k - 1) : ~Contains(lowerS, patterns[j])
    ELSE 0

removeFeaturing(s) ==
    LET lowerS == ToLower(s)
        k == FirstPatternIn(lowerS, FeaturingPatterns)
        cut == SliceBefore(s, lowerS, LastIndex(lowerS, FeaturingPatterns[k]))
    IN IF k = 0 THEN s
       ELSE IF cut = PANIC THEN PANIC
       ELSE TrimSpace(cut)

\* the start positions of the matches of (?i)\bwith\b
WithMatches(lowerS) ==
    {i \in Occurrences(lowerS, "with") :
        /\ (i = 1 \/ ~IsWordChar(At(lowerS, i - 1)))
        /\ (i + 4 > Len(lowerS) \/ ~IsWordChar(At(lowerS, i + 4)))}

removeWith(s) ==
    LET lowerS == ToLower(s)
        matches == WithMatches(lowerS)
        lastMatch == CHOOSE i \in matches : \A j \in matches : i >= j
    IN IF HasPrefix(lowerS, "with ") /\ ByteLen(lowerS) > 4
       THEN TrimSpace(TrimSuffix(TrimSpace(Drop(s, 5)), "-"))
       ELSE IF matches /= {} /\ lastMatch + 3 < Len(lowerS)
            THEN IF SliceBefore(s, lowerS, lastMatch) = PANIC THEN PANIC
                 ELSE TrimSpace(TrimSuffix(TrimSpace(SliceBefore(s, lowerS, lastMatch)), "-"))
            ELSE s

CommonSuffixes == <<
    " - bonus track", " - remix", " - extended", " - radio edit", " - single edit",
    " - edit", " - version", " - live", " - acoustic", " - instrumental", " - demo",
    " - original mix", " - club mix", " - clean", " - explicit", " - bonus", " - track",
    " - remastered",
    " - from the motion picture", " - from the film", " - from the movie",
    " - from the soundtrack", " - soundtrack version", " - film version",
    " - movie version",
    " (bonus track)", " (remix)", " (extended)", " (radio edit)", " (single edit)",
    " (edit)", " (version)", " (live)", " (acoustic)", " (instrumental)", " (demo)",
    " (original mix)", " (club mix)", " (clean)", " (explicit)", " (bonus)", " (track)",
    " (remastered)",
    " (from the soundtrack)", " (soundtrack version)", " (film version)",
    " (movie version)" >>

SoundtrackPatterns == <<
    " - from the motion picture", " - from the film", " - from the movie",
    " - love theme from",
    "(from the motion picture", "(from the film", "(from the movie", "(love theme from" >>

RECURSIVE SkipSpacesBack(_, _)
\* the largest n <= k with n = 0 or the n-th character not in \s
SkipSpacesBack(s, k) == IF k > 0 /\ IsReSpace(At(s, k)) THEN SkipSpacesBack(s, k - 1) ELSE k

\* position of the "-" where (?i)\s*-\s*\d{4}\s+remastered\s*$ matches, or 0; the match
\* itself starts at the white space before it
YearDashMatch(s) ==
    LET low == ToLower(s)
        e == SkipSpacesBack(low, Len(low))
        r == e - 10
        d == SkipSpacesBack(low, r)
        h == SkipSpacesBack(low, d - 4)
    IN IF /\ r >= 0 /\ SubSeq(low, r + 1, e) = "remastered"
          /\ d < r
          /\ d >= 4 /\ \A k \in (d - 3)..d : IsDigit(At(low, k))
          /\ h >= 1 /\ At(low, h) = "-"
       THEN h ELSE 0

\* position of the "(" where (?i)\s*\(\s*\d{4}\s+remastered\s*\)\s*$ matches, or 0
YearParenMatch(s) ==
    LET low == ToLower(s)
        p == SkipSpacesBack(low, Len(low))
        e == SkipSpacesBack(low, p - 1)
        r == e - 10
        d == SkipSpacesBack(low, r)
        h == SkipSpacesBack(low, d - 4)
    IN IF /\ p >= 1 /\ At(low, p) = ")"
          /\ r >= 0 /\ SubSeq(low, r + 1, e) = "remastered"
          /\ d < r
          /\ d >= 4 /\ \A k \in (d - 3)..d : IsDigit(At(low, k))
          /\ h >= 1 /\ At(low, h) = "("
       THEN h ELSE 0

\* the soundtrack pattern, in list order, that occurs in lowerS after its first character
FirstSoundtrackIn(lowerS) ==
    IF \E k \in 1..Len(SoundtrackPatterns) : Index(lowerS, SoundtrackPatterns[k]) > 1
    THEN CHOOSE k \in 1..Len(SoundtrackPatterns) :
            /\ Index(lowerS, SoundtrackPatterns[k]) > 1
            /\ \A j \in 1..(k - 1) : ~(Index(lowerS, SoundtrackPatterns[j]) > 1)
    ELSE 0

CutAndClean(s, n) == TrimSpace(TrimSuffix(TrimSpace(Take(s, n)), "-"))

RemoveCommonSuffixes(s) ==
    LET lowerS == ToLower(s)
        k == IF \E j \in 1..Len(CommonSuffixes) : HasSuffix(lowerS, CommonSuffixes[j])
             THEN CHOOSE j \in 1..Len(CommonSuffixes) :
                     /\ HasSuffix(lowerS, CommonSuffixes[j])
                     /\ \A m \in 1..(j - 1) : ~HasSuffix(lowerS, CommonSuffixes[m])
             ELSE 0
        st == FirstSoundtrackIn(lowerS)
    IN IF k /= 0 THEN CutAndClean(s, Len(s) - Len(CommonSuffixes[k]))
       ELSE IF YearDashMatch(s) /= 0 THEN CutAndClean(s, YearDashMatch(s) - 1)
       ELSE IF YearParenMatch(s) /= 0 THEN CutAndClean(s, YearParenMatch(s) - 1)
       ELSE IF st /= 0
            THEN LET cut == SliceBefore(s, lowerS, Index(lowerS, SoundtrackPatterns[st]))
                 IN IF cut = PANIC THEN PANIC
                    ELSE TrimSpace(TrimSuffix(TrimSpace(cut), "-"))
       ELSE s

\* strings.Split(s, sep) for a non-empty sep
RECURSIVE Split(_, _)
Split(s, sep) ==
    IF Contains(s, sep)
    THEN <<Take(s, Index(s, sep) - 1)>> \o Split(Drop(s, Index(s, sep) + Len(sep) - 1), sep)
    ELSE <<s>>

RECURSIVE WrapParts(_, _)
WrapParts(parts, k) ==
    IF k > Len(parts) THEN ""
    ELSE " (" \o TrimSpace(parts[k]) \o ")" \o WrapParts(parts, k + 1)

normalizeTitle(s) ==
    LET low == ToLower(s)
        parts == Split(low, " - ")
        joined == IF Len(parts) > 1 THEN parts[1] \o WrapParts(parts, 2) ELSE low
    IN CollapseSpaces(TrimSpace(joined))

\* the replacements of normalizePunctuation, each character to its replacement
PunctuationFrom == <<HYPHEN, EMDASH, HBAR, "ￗ", RSQUO, LSQUO, GRAVE, PRIME, LDQUO, RDQUO>>
PunctuationTo == <<"-", "-", "-", "x", "'", "'", "'", "'", "\"", "\"">>

ReplaceChar(c, from, to) ==
    IF \E k \in 1..Len(from) : from[k] = c
    THEN to[CHOOSE k \in 1..Len(from) : from[k] = c]
    ELSE c

RECURSIVE normalizePunctuation(_)
normalizePunctuation(s) ==
    IF s = "" THEN ""
    ELSE ReplaceChar(Head(s), PunctuationFrom, PunctuationTo) \o normalizePunctuation(Tail(s))

\* the entries of accentMap within U+0080..U+00FF
AccentFrom == "￡￠￢￣￤￥￩￨￪￫￭￬￮￯￳￲￴￵￶￸￺￹￻￼￦￰￱￧￁￀ￂￃￄￅ￉￈ￊￋￍￌￎￏￓￒￔￕￖ￘ￚ￙ￛￜ￝￑ￇ"
AccentTo == "aaaaaaeeeeiiiioooooouuuuyyncAAAAAAEEEEIIIIOOOOOOUUUUYNC"

accentMap == CharMap(AccentFrom, AccentTo)

normalizeAccentChar(c) == IF c \in DOMAIN accentMap THEN accentMap[c] ELSE c

RECURSIVE normalizeAccents(_)
normalizeAccents(s) ==
    IF s = "" THEN "" ELSE normalizeAccentChar(Head(s)) \o normalizeAccents(Tail(s))

----------------------------------------------------------------------------
(* calculateStringSimilarity *)

\* the nested loops of the word step: a word of words1 counts when some word of
\* words2 equals it; the inner loop breaks at the first equal word and removes nothing
CountNoConsume(words1, words2) ==
    Cardinality({k \in 1..Len(words1) : \E j \in 1..Len(words2) : words1[k] = words2[j]})

MatchingWords(words1, words2) == CountNoConsume(words1, words2)

WordStepRuns(a, b) ==
    /\ a /= b
    /\ a /= "" /\ b /= ""
    /\ ~Contains(a, b) /\ ~Contains(b, a)
    /\ Fields(a) /= <<>> /\ Fields(b) /= <<>>

InvertedRatio(a, b) ==
    LET longer == IF ByteLen(b) > ByteLen(a) THEN b ELSE a
        shorter == IF ByteLen(b) > ByteLen(a) THEN a ELSE b
    IN Rat(ByteLen(longer), ByteLen(shorter))

\* one string contains the other: how much of the longer one is covered
SubstringRatio(a, b) ==
    LET longer == IF ByteLen(b) > ByteLen(a) THEN b ELSE a
        shorter == IF ByteLen(b) > ByteLen(a) THEN a ELSE b
    IN Rat(ByteLen(shorter), ByteLen(longer))

calculateStringSimilarity(a, b) ==
    IF a = b THEN One
    ELSE IF a = "" \/ b = "" THEN Zero
    ELSE IF Contains(a, b) \/ Contains(b, a) THEN SubstringRatio(a, b)
    ELSE LET words1 == Fields(a)
             words2 == Fields(b)
         IN IF Len(words1) = 0 \/ Len(words2) = 0 THEN Zero
            ELSE LET matchingWords == MatchingWords(words1, words2)
                     wordSimilarity == Rat(matchingWords, max(Len(words1), Len(words2)))
                     longest == max(ByteLen(a), ByteLen(b))
                     lengthSimilarity == Rat(longest - abs(ByteLen(a) - ByteLen(b)), longest)
                 IN RAdd(RMul(wordSimilarity, <<7, 10>>), RMul(lengthSimilarity, <<3, 10>>))

----------------------------------------------------------------------------
(* FindBestMatch *)

ZeroThreshold == <<0, 1>>

MinConfidenceScore == <<7, 10>>

\* strings.ToLower(strings.TrimSpace(s))
LowerTrim(s) == ToLower(TrimSpace(s))

\* the similarity of one variant: both strings lowered and trimmed
VariantSimilarity(a, b) == calculateStringSimilarity(LowerTrim(a), LowerTrim(b))

\* the artist similarity of one iteration: the original and the punctuation, accent
\* and featuring variants, each replacing the running value when greater
ArtistSimilarityOf(targetArtist, trackArtist) ==
    LET original == VariantSimilarity(targetArtist, trackArtist)
        punctuation == VariantSimilarity(normalizePunctuation(targetArtist), normalizePunctuation(trackArtist))
        accent == VariantSimilarity(normalizeAccents(targetArtist), normalizeAccents(trackArtist))
        featuring == VariantSimilarity(removeFeaturing(targetArtist), removeFeaturing(trackArtist))
    IN RMax(RMax(RMax(original, punctuation), accent), featuring)

\* the title similarity of one iteration: the best of the eight variants
TitleSimilarityOf(targetTitle, trackTitle) ==
    LET original == VariantSimilarity(targetTitle, trackTitle)
        clean == VariantSimilarity(removeBrackets(targetTitle), removeBrackets(trackTitle))
        featuring == VariantSimilarity(removeFeaturing(targetTitle), removeFeaturing(trackTitle))
        normalized == VariantSimilarity(normalizeTitle(targetTitle), normalizeTitle(trackTitle))
        with == VariantSimilarity(removeWith(targetTitle), removeWith(trackTitle))
        suffix == VariantSimilarity(RemoveCommonSuffixes(targetTitle), RemoveCommonSuffixes(trackTitle))
        punctuation == VariantSimilarity(normalizePunctuation(targetTitle), normalizePunctuation(trackTitle))
        accent == VariantSimilarity(normalizeAccents(targetTitle), normalizeAccents(trackTitle))
    IN RMax(RMax(RMax(RMax(RMax(RMax(RMax(original, clean), featuring), normalized),
                      with), suffix), punctuation), accent)

CombinedScore(titleSimilarity, artistSimilarity) ==
    RAdd(RMul(titleSimilarity, <<7, 10>>), RMul(artistSimilarity, <<3, 10>>))

ExactTitleOnly(targetTitle, targetArtist, t) == LowerTrim(targetTitle) = LowerTrim(t.Title)

\* the test of the first loop
IsExactMatch(targetTitle, targetArtist, t) ==
    /\ LowerTrim(targetTitle) = LowerTrim(t.Title)
    /\ LowerTrim(targetArtist) = LowerTrim(t.Artist)

CaseSensitiveVariousArtists(trackArtist) == TrimSpace(trackArtist) = "various artists"

IsVariousArtists(trackArtist) == LowerTrim(trackArtist) = "various artists"

OnlySecondGuard(titleSimilarity, artistSimilarity, trackArtist) ==
    /\ RLess(<<7, 10>>, titleSimilarity) /\ RLess(artistSimilarity, <<2, 10>>)
    /\ ~IsVariousArtists(trackArtist)

\* the two guards: the iteration ends with continue
Rejected(titleSimilarity, artistSimilarity, trackArtist) ==
    \/ /\ RLess(<<9, 10>>, titleSimilarity) /\ RLess(artistSimilarity, <<3, 10>>)
       /\ ~IsVariousArtists(trackArtist)
    \/ /\ RLess(<<7, 10>>, titleSimilarity) /\ RLess(artistSimilarity, <<2, 10>>)
       /\ ~IsVariousArtists(trackArtist)

FirstSeenWins(score, artistSimilarity, curScore, curArtistSimilarity) == RLess(curScore, score)

\* the test that makes the candidate the new best match
ReplacesBest(score, artistSimilarity, curScore, curArtistSimilarity) ==
    \/ RLess(curScore, score)
    \/ score = curScore /\ RLess(curArtistSimilarity, artistSimilarity)

NeverPerfect(titleSimilarity, artistSimilarity) ==
    RLess(One, titleSimilarity) /\ RLess(One, artistSimilarity)

IsPerfectMatch(titleSimilarity, artistSimilarity) ==
    titleSimilarity = One /\ artistSimilarity = One

StrictlyAbove(score, threshold) == RLess(threshold, score)

\* bestScore >= MinConfidenceScore
ReachesThreshold(score, threshold) == RLeq(threshold, score)

NoTrack == [ID |-> "", Title |-> "", Artist |-> ""]
Nil == <<>>

\* The inputs of Spec: the targets searched for and the library entries offered
Targets == {
    [Title |-> "Out Of My Head", Artist |-> "Loote"],
    [Title |-> "Do It", Artist |-> "Chloe x Halle"] }

CandidateTracks == {
    [ID |-> "1", Title |-> "Out of My Head", Artist |-> "Various Artists"],
    [ID |-> "2", Title |-> "Out of My Head", Artist |-> "Kylie Minogue"],
    [ID |-> "3", Title |-> " out of my head", Artist |-> "LOOTE"],
    [ID |-> "4", Title |-> "Out Of My Head (Live)", Artist |-> "Loote"],
    [ID |-> "5", Title |-> "Some Other Song", Artist |-> "Some Other Artist"],
    [ID |-> "6", Title |-> "Out Of My He", Artist |-> "Kylie Minogue"],
    [ID |-> "7", Title |-> "Out Of My Head", Artist |-> "Loote and the Others"],
    [ID |-> "8", Title |-> "Out Of My Head", Artist |-> "Loote Band"],
    [ID |-> "9", Title |-> "Out Of My H", Artist |-> "Loote"],
    [ID |-> "10", Title |-> "Out Of M", Artist |-> "Loote"],
    [ID |-> "11", Title |-> "Do It", Artist |-> "Chloe ￗ Halle"] }

\* The inputs of MatchSpec: the songs of the playlist and the tracks of the library
Songs == {
    [Name |-> "Don't", Artist |-> "Loote"],
    [Name |-> "DANCE...", Artist |-> "Slayyyter"],
    [Name |-> "Run-Up", Artist |-> "Chloe x Halle"] }

LibraryTracks == {
    [ID |-> "21", Title |-> "Donﾴt", Artist |-> "Loote"],
    [ID |-> "22", Title |-> "DANCEﾷ", Artist |-> "Slayyyter"],
    [ID |-> "23", Title |-> "Run-Up", Artist |-> "Chloe ￗ Halle"],
    [ID |-> "24", Title |-> "RunﾯUp", Artist |-> "Chloe x Halle"],
    [ID |-> "25", Title |-> "don't ", Artist |-> "LOOTE"],
    [ID |-> "26", Title |-> "Some Other Song", Artist |-> "Some Other Artist"] }

\* The inputs of SparseSpec: tracks whose metadata Plex left empty, as in the tests
\* SingleUnrelatedResult and TestFindBestMatchTheLakes, and targets some of whose
\* variants are empty
SparseTargets == {
    [Title |-> "the lakes - bonus track", Artist |-> "Taylor Swift"],
    [Title |-> "(Intro)", Artist |-> " feat. Anitta"],
    [Title |-> "(Intro)", Artist |-> "Taylor Swift"] }

SparseTracks == {
    [ID |-> "plex_korean_track", Title |-> "", Artist |-> ""],
    [ID |-> "197988", Title |-> "", Artist |-> ""],
    [ID |-> "31", Title |-> "the lakes", Artist |-> "Taylor Swift"],
    [ID |-> "32", Title |-> "", Artist |-> "Taylor Swift"] }

TargetTitles == {g.Title : g \in Targets \cup SparseTargets} \cup {g.Name : g \in Songs}
TargetArtists == {g.Artist : g \in Targets \cup Songs \cup SparseTargets}
CandidateTitles == {t.Title : t \in CandidateTracks \cup LibraryTracks \cup SparseTracks}
CandidateArtists == {t.Artist : t \in CandidateTracks \cup LibraryTracks \cup SparseTracks}

\* the similarities of every (target, candidate) pair of Spec; merging with the
\* empty function makes TLC compute each table once instead of at every use
TitleSimilarityTable ==
    [p \in TargetTitles \X CandidateTitles |-> TitleSimilarityOf(p[1], p[2])] @@ <<>>
ArtistSimilarityTable ==
    [p \in TargetArtists \X CandidateArtists |-> ArtistSimilarityOf(p[1], p[2])] @@ <<>>

TitleSim(t) == TitleSimilarityTable[<<title, t.Title>>]
ArtistSim(t) == ArtistSimilarityTable[<<artist, t.Artist>>]

RECURSIVE SeqsUpTo(_, _)
SeqsUpTo(S, n) ==
    IF n = 0 THEN {<<>>}
    ELSE LET shorter == SeqsUpTo(S, n - 1)
         IN shorter \cup {Append(q, x) : q \in {r \in shorter : Len(r) = n - 1}, x \in S}

SimIdle == s1 = "" /\ s2 = "" /\ simPc = "idle" /\ simResult = Zero /\ simMatching = -1

\* no MatchResult has been built
ConfIdle == matchType = "" /\ confidence = Zero

\* no normalizer is under test
NormIdle == normFn = "" /\ normIn = "" /\ normOut = "" /\ normAgain = "" /\ normPc = "idle"

\* MatchSpotifyPlaylist has not been called
NoPlaylist == "none"
SyncIdle ==
    /\ songs = <<>> /\ results = <<>> /\ matchedTrackIDs = <<>>
    /\ queries = <<>> /\ failed = FALSE
    /\ playlistBefore = NoPlaylist /\ playlistExists = FALSE /\ playlistTracks = <<>>
    /\ requests = <<>> /\ artworkURL = "" /\ successCount = 0 /\ added = 0
    /\ syncPc = "idle" /\ syncErr = ""

\* the keys of the overrides map and the environment variables of the same names
CfgKeys == <<"SPOTIFY_CLIENT_ID", "SPOTIFY_CLIENT_SECRET", "SPOTIFY_REDIRECT_URI",
             "SPOTIFY_USERNAME", "SPOTIFY_PLAYLIST_ID", "SPOTIFY_PLAYLIST_EXCLUDED_ID",
             "PLEX_URL", "PLEX_TOKEN", "PLEX_LIBRARY_SECTION_ID", "PLEX_SERVER_ID">>
CfgKeySet == {CfgKeys[k] : k \in 1..Len(CfgKeys)}

\* a variable that is not in the environment, or a key that is not in the map
Unset == "(unset)"
NoVars == [k \in CfgKeySet |-> Unset]

\* config := &Config{}
ZeroConfig == [ClientID |-> "", ClientSecret |-> "", RedirectURI |-> "", Username |-> "",
               PlaylistIDs |-> <<>>, ExcludedPlaylistIDs |-> <<>>,
               URL |-> "", Token |-> "", LibrarySectionID |-> 0, ServerID |-> ""]

\* LoadWithOverrides has not been called
CfgIdle ==
    /\ sysEnv = NoVars /\ envFileExists = FALSE /\ envFile = NoVars /\ overrides = NoVars
    /\ environ = NoVars /\ config = ZeroConfig /\ cfgPc = "idle" /\ cfgErr = ""

\* PopulateMusicBrainzIDs has not been called
MbIdle == mbSongs = <<>> /\ mbLog = <<>> /\ mbIdx = 0 /\ mbPc = "idle"

\* processPlaylists has not been called
PpIdle ==
    /\ playlistMetas = <<>> /\ attempted = <<>> /\ logged = <<>> /\ playlistIndex = 0
    /\ ppPc = "idle" /\ ppErr = ""

RunIdle == SyncIdle /\ CfgIdle /\ MbIdle /\ PpIdle

FbmIdle ==
    /\ tracks = <<>> /\ title = "" /\ artist = ""
    /\ pc = "idle" /\ idx = 0 /\ track = NoTrack
    /\ bestMatch = Nil /\ bestScore = Zero /\ bestArtistSimilarity = Zero
    /\ result = Nil

Init ==
    /\ tracks \in SeqsUpTo(CandidateTracks, MaxTracks)
    /\ \E g \in Targets : title = g.Title /\ artist = g.Artist
    /\ pc = "start" /\ idx = 0 /\ track = NoTrack
    /\ bestMatch = Nil /\ bestScore = Zero /\ bestArtistSimilarity = Zero
    /\ result = Nil
    /\ SimIdle
    /\ ConfIdle
    /\ NormIdle
    /\ RunIdle

Returned == pc \in {"ret_empty", "ret_exact", "ret_perfect", "ret_best", "ret_none"}

\* if len(tracks) == 0 { return nil }
Start ==
    /\ pc = "start"
    /\ IF Len(tracks) = 0
       THEN pc' = "ret_empty" /\ result' = Nil
       ELSE pc' = "exact" /\ UNCHANGED result
    /\ UNCHANGED <<tracks, title, artist, idx, track, bestMatch, bestScore,
                   bestArtistSimilarity>>
    /\ UNCHANGED simVars
    /\ UNCHANGED confVars
    /\ UNCHANGED normVars
    /\ UNCHANGED runVars

\* one iteration of the first loop
ExactStep ==
    /\ pc = "exact" /\ idx < Len(tracks)
    /\ track' = tracks[idx + 1]
    /\ IF IsExactMatch(title, artist, track')
       THEN pc' = "ret_exact" /\ result' = <<track'>> /\ UNCHANGED idx
       ELSE idx' = idx + 1 /\ UNCHANGED <<pc, result>>
    /\ UNCHANGED <<tracks, title, artist, bestMatch, bestScore, bestArtistSimilarity>>
    /\ UNCHANGED simVars
    /\ UNCHANGED confVars
    /\ UNCHANGED normVars
    /\ UNCHANGED runVars

\* the first loop ends without a return
ExactEnd ==
    /\ pc = "exact" /\ idx = Len(tracks)
    /\ pc' = "scan" /\ idx' = 0
    /\ UNCHANGED <<tracks, title, artist, track, bestMatch, bestScore,
                   bestArtistSimilarity, result>>
    /\ UNCHANGED simVars
    /\ UNCHANGED confVars
    /\ UNCHANGED normVars
    /\ UNCHANGED runVars

\* one iteration of the second loop
ScanStep ==
    /\ pc = "scan" /\ idx < Len(tracks)
    /\ track' = tracks[idx + 1]
    /\ LET titleSimilarity == TitleSim(track')
           artistSimilarity == ArtistSim(track')
           score == CombinedScore(titleSimilarity, artistSimilarity)
       IN IF Rejected(titleSimilarity, artistSimilarity, track'.Artist)
          THEN /\ idx' = idx + 1
               /\ UNCHANGED <<pc, bestMatch, bestScore, bestArtistSimilarity, result>>
          ELSE /\ IF ReplacesBest(score, artistSimilarity, bestScore, bestArtistSimilarity)
                  THEN /\ bestScore' = score
                       /\ bestMatch' = <<track'>>
                       /\ bestArtistSimilarity' = artistSimilarity
                  ELSE UNCHANGED <<bestMatch, bestScore, bestArtistSimilarity>>
               /\ IF IsPerfectMatch(titleSimilarity, artistSimilarity)
                  THEN pc' = "ret_perfect" /\ result' = <<track'>> /\ UNCHANGED idx
                  ELSE idx' = idx + 1 /\ UNCHANGED <<pc, result>>
    /\ UNCHANGED <<tracks, title, artist>>
    /\ UNCHANGED simVars
    /\ UNCHANGED confVars
    /\ UNCHANGED normVars
    /\ UNCHANGED runVars

\* after the second loop: the threshold test; the log line before the return reads
\* bestMatch.Title, a nil dereference if bestMatch is nil
Finish ==
    /\ pc = "scan" /\ idx = Len(tracks)
    /\ IF ReachesThreshold(bestScore, MinConfidenceScore)
       THEN IF bestMatch = Nil
            THEN pc' = "panic" /\ UNCHANGED result
            ELSE pc' = "ret_best" /\ result' = bestMatch
       ELSE pc' = "ret_none" /\ result' = Nil
    /\ UNCHANGED <<tracks, title, artist, idx, track, bestMatch, bestScore,
                   bestArtistSimilarity>>
    /\ UNCHANGED simVars
    /\ UNCHANGED confVars
    /\ UNCHANGED normVars
    /\ UNCHANGED runVars

Next == Start \/ ExactStep \/ ExactEnd \/ ScanStep \/ Finish

Spec == Init /\ [][Next]_vars

----------------------------------------------------------------------------
(* MatchSpec: one song of MatchSpotifyPlaylist: FindBestMatch over the tracks *)
(* found, then calculateConfidence for the MatchResult                       *)

MatchTypeTitleArtist == "title_artist"
MatchTypeNone == "none"

\* the similarity of one variant of calculateConfidence: both strings lowered
LowerSimilarity(a, b) == calculateStringSimilarity(ToLower(a), ToLower(b))

\* trk is Nil or <<t>>
calculateConfidence(song, trk, mType) ==
    IF trk = Nil THEN Zero
    ELSE IF mType = MatchTypeTitleArtist
    THEN LET t == trk[1]
             original == LowerSimilarity(song.Name, t.Title)
             artistOriginal == LowerSimilarity(song.Artist, t.Artist)
             clean == LowerSimilarity(removeBrackets(song.Name), removeBrackets(t.Title))
             featuring == LowerSimilarity(removeFeaturing(song.Name), removeFeaturing(t.Title))
             normalized == LowerSimilarity(normalizeTitle(song.Name), normalizeTitle(t.Title))
             with == LowerSimilarity(removeWith(song.Name), removeWith(t.Title))
             suffix == LowerSimilarity(RemoveCommonSuffixes(song.Name), RemoveCommonSuffixes(t.Title))
             accent == LowerSimilarity(normalizeAccents(song.Name), normalizeAccents(t.Title))
             artistFeaturing == LowerSimilarity(removeFeaturing(song.Artist), removeFeaturing(t.Artist))
             titleSimilarity ==
                 RMax(RMax(RMax(RMax(RMax(RMax(original, clean), featuring), normalized),
                                with), suffix), accent)
             artistSimilarity == RMax(artistOriginal, artistFeaturing)
         IN RAdd(RMul(titleSimilarity, <<7, 10>>), RMul(artistSimilarity, <<3, 10>>))
    ELSE Zero

MatchInit ==
    /\ tracks \in SeqsUpTo(LibraryTracks, MaxTracks)
    /\ \E g \in Songs : title = g.Name /\ artist = g.Artist
    /\ pc = "start" /\ idx = 0 /\ track = NoTrack
    /\ bestMatch = Nil /\ bestScore = Zero /\ bestArtistSimilarity = Zero
    /\ result = Nil
    /\ SimIdle
    /\ ConfIdle
    /\ NormIdle
    /\ RunIdle

\* SearchTrack hands back the track FindBestMatch returned and the match type;
\* MatchSpotifyPlaylist stores calculateConfidence(song, track, matchType)
Confidence ==
    /\ Returned
    /\ pc' = "conf"
    /\ matchType' = IF result = Nil THEN MatchTypeNone ELSE MatchTypeTitleArtist
    /\ confidence' = calculateConfidence([Name |-> title, Artist |-> artist], result, matchType')
    /\ UNCHANGED <<tracks, title, artist, idx, track, bestMatch, bestScore,
                   bestArtistSimilarity, result>>
    /\ UNCHANGED simVars
    /\ UNCHANGED normVars
    /\ UNCHANGED runVars

MatchNext == Start \/ ExactStep \/ ExactEnd \/ ScanStep \/ Finish \/ Confidence

MatchSpec == MatchInit /\ [][MatchNext]_vars

----------------------------------------------------------------------------
(* SparseSpec: FindBestMatch over tracks with empty metadata *)

SparseInit ==
    /\ tracks \in SeqsUpTo(SparseTracks, MaxTracks)
    /\ \E g \in SparseTargets : title = g.Title /\ artist = g.Artist
    /\ pc = "start" /\ idx = 0 /\ track = NoTrack
    /\ bestMatch = Nil /\ bestScore = Zero /\ bestArtistSimilarity = Zero
    /\ result = Nil
    /\ SimIdle
    /\ ConfIdle
    /\ NormIdle
    /\ RunIdle

SparseSpec == SparseInit /\ [][Next]_vars

----------------------------------------------------------------------------
(* SimSpec: calculateStringSimilarity applied to every pair of short strings *)

SimAlphabet == {"a", "b", " "}

RECURSIVE StringsUpTo(_)
StringsUpTo(n) ==
    IF n = 0 THEN {""}
    ELSE LET shorter == StringsUpTo(n - 1)
         IN shorter \cup {s \o c : s \in {t \in shorter : Len(t) = n - 1}, c \in SimAlphabet}

SimStrings == StringsUpTo(MaxLen)

SimInit ==
    /\ s1 \in SimStrings
    /\ s2 \in SimStrings
    /\ simPc = "call"
    /\ simResult = Zero
    /\ simMatching = -1
    /\ FbmIdle
    /\ ConfIdle
    /\ NormIdle
    /\ RunIdle

SimCall ==
    /\ simPc = "call"
    /\ simPc' = "ret"
    /\ simResult' = calculateStringSimilarity(s1, s2)
    /\ simMatching' = IF WordStepRuns(s1, s2) THEN MatchingWords(Fields(s1), Fields(s2)) ELSE -1
    /\ UNCHANGED <<s1, s2>>
    /\ UNCHANGED fbmVars
    /\ UNCHANGED confVars
    /\ UNCHANGED normVars
    /\ UNCHANGED runVars

SimNext == SimCall

SimSpec == SimInit /\ [][SimNext]_vars

----------------------------------------------------------------------------
(* NpSpec: FindBestMatchWithNormalizedPunctuation *)

\* strings.ToLower(strings.TrimSpace(c.normalizePunctuation(s)))
NormalizedLowerTrim(s) == ToLower(TrimSpace(normalizePunctuation(s)))

NpSimilarityOf(target, candidate) ==
    calculateStringSimilarity(NormalizedLowerTrim(target), NormalizedLowerTrim(candidate))

NpIsExactMatch(targetTitle, targetArtist, t) ==
    /\ NormalizedLowerTrim(targetTitle) = NormalizedLowerTrim(t.Title)
    /\ NormalizedLowerTrim(targetArtist) = NormalizedLowerTrim(t.Artist)

\* the two guards of FindBestMatchWithNormalizedPunctuation
NpRejected(titleSimilarity, artistSimilarity) ==
    \/ RLess(<<9, 10>>, titleSimilarity) /\ RLess(artistSimilarity, <<3, 10>>)
    \/ RLess(<<7, 10>>, titleSimilarity) /\ RLess(artistSimilarity, <<2, 10>>)

NpCandidateTracks == {t \in CandidateTracks : t.ID \in {"1", "2", "3", "5", "10", "11"}}

NpTitleSimilarityTable ==
    [p \in TargetTitles \X CandidateTitles |-> NpSimilarityOf(p[1], p[2])] @@ <<>>
NpArtistSimilarityTable ==
    [p \in TargetArtists \X CandidateArtists |-> NpSimilarityOf(p[1], p[2])] @@ <<>>

NpTitleSim(t) == NpTitleSimilarityTable[<<title, t.Title>>]
NpArtistSim(t) == NpArtistSimilarityTable[<<artist, t.Artist>>]

NpInit ==
    /\ tracks \in SeqsUpTo(NpCandidateTracks, MaxTracks)
    /\ \E g \in Targets : title = g.Title /\ artist = g.Artist
    /\ pc = "np_start" /\ idx = 0 /\ track = NoTrack
    /\ bestMatch = Nil /\ bestScore = Zero /\ bestArtistSimilarity = Zero
    /\ result = Nil
    /\ SimIdle
    /\ ConfIdle
    /\ NormIdle
    /\ RunIdle

NpReturned == pc \in {"np_ret_empty", "np_ret_exact", "np_ret_perfect", "np_ret_best", "np_ret_none"}

\* if len(tracks) == 0 { return nil }
NpStart ==
    /\ pc = "np_start"
    /\ IF Len(tracks) = 0
       THEN pc' = "np_ret_empty" /\ result' = Nil
       ELSE pc' = "np_exact" /\ UNCHANGED result
    /\ UNCHANGED <<tracks, title, artist, idx, track, bestMatch, bestScore,
                   bestArtistSimilarity>>
    /\ UNCHANGED <<simVars, confVars, normVars, runVars>>

\* one iteration of the first loop
NpExactStep ==
    /\ pc = "np_exact" /\ idx < Len(tracks)
    /\ track' = tracks[idx + 1]
    /\ IF NpIsExactMatch(title, artist, track')
       THEN pc' = "np_ret_exact" /\ result' = <<track'>> /\ UNCHANGED idx
       ELSE idx' = idx + 1 /\ UNCHANGED <<pc, result>>
    /\ UNCHANGED <<tracks, title, artist, bestMatch, bestScore, bestArtistSimilarity>>
    /\ UNCHANGED <<simVars, confVars, normVars, runVars>>

NpExactEnd ==
    /\ pc = "np_exact" /\ idx = Len(tracks)
    /\ pc' = "np_scan" /\ idx' = 0
    /\ UNCHANGED <<tracks, title, artist, track, bestMatch, bestScore,
                   bestArtistSimilarity, result>>
    /\ UNCHANGED <<simVars, confVars, normVars, runVars>>

\* one iteration of the second loop
NpScanStep ==
    /\ pc = "np_scan" /\ idx < Len(tracks)
    /\ track' = tracks[idx + 1]
    /\ LET titleSimilarity == NpTitleSim(track')
           artistSimilarity == NpArtistSim(track')
           score == CombinedScore(titleSimilarity, artistSimilarity)
       IN IF NpRejected(titleSimilarity, artistSimilarity)
          THEN /\ idx' = idx + 1
               /\ UNCHANGED <<pc, bestMatch, bestScore, bestArtistSimilarity, result>>
          ELSE /\ IF \/ RLess(bestScore, score)
                     \/ score = bestScore /\ RLess(bestArtistSimilarity, artistSimilarity)
                  THEN /\ bestScore' = score
                       /\ bestMatch' = <<track'>>
                       /\ bestArtistSimilarity' = artistSimilarity
                  ELSE UNCHANGED <<bestMatch, bestScore, bestArtistSimilarity>>
               /\ IF titleSimilarity = One /\ artistSimilarity = One
                  THEN pc' = "np_ret_perfect" /\ result' = <<track'>> /\ UNCHANGED idx
                  ELSE idx' = idx + 1 /\ UNCHANGED <<pc, result>>
    /\ UNCHANGED <<tracks, title, artist>>
    /\ UNCHANGED <<simVars, confVars, normVars, runVars>>

\* the threshold test after the second loop
NpFinish ==
    /\ pc = "np_scan" /\ idx = Len(tracks)
    /\ IF RLeq(MinConfidenceScore, bestScore)
       THEN IF bestMatch = Nil
            THEN pc' = "np_panic" /\ UNCHANGED result
            ELSE pc' = "np_ret_best" /\ result' = bestMatch
       ELSE pc' = "np_ret_none" /\ result' = Nil
    /\ UNCHANGED <<tracks, title, artist, idx, track, bestMatch, bestScore,
                   bestArtistSimilarity>>
    /\ UNCHANGED <<simVars, confVars, normVars, runVars>>

NpNext == NpStart \/ NpExactStep \/ NpExactEnd \/ NpScanStep \/ NpFinish

NpSpec == NpInit /\ [][NpNext]_vars

----------------------------------------------------------------------------
(* NormSpec: a normalizer applied to a string, and again to its own result *)

Normalizers == {"removeBrackets", "removeFeaturing", "removeWith", "RemoveCommonSuffixes",
                "normalizeTitle", "normalizePunctuation", "normalizeAccents"}

ApplyNormalizer(fn, s) ==
    CASE fn = "removeBrackets" -> removeBrackets(s)
      [] fn = "removeFeaturing" -> removeFeaturing(s)
      [] fn = "removeWith" -> removeWith(s)
      [] fn = "RemoveCommonSuffixes" -> RemoveCommonSuffixes(s)
      [] fn = "normalizeTitle" -> normalizeTitle(s)
      [] fn = "normalizePunctuation" -> normalizePunctuation(s)
      [] fn = "normalizeAccents" -> normalizeAccents(s)

\* the normalizers that work character by character
CharNormalizers == {"normalizePunctuation", "normalizeAccents"}

\* the pieces the arguments of each normalizer are put together from
NormTokens(fn) ==
    CASE fn = "removeBrackets" -> {"(", ")", "[", "]", "{x}", "a", " "}
      [] fn = "removeFeaturing" -> {"A", "b", " feat. ", " Featuring ", " ft ", "ﾢﾢﾢﾢﾢ"}
      [] fn = "removeWith" -> {"a", " with b", " with", "out", "With ", " - "}
      [] fn = "RemoveCommonSuffixes" ->
            {"Song", " - Live", " (Remix)", " - Edit", " - 2011 Remastered", " (From the Film) x"}
      [] fn = "normalizeTitle" -> {"a", "B", " ", "-", " - ", "\t"}
      [] fn = "normalizePunctuation" ->
            {"a", "-", ".", HYPHEN, ENDASH, EMDASH, HBAR, "ￗ", RSQUO, LSQUO, GRAVE, PRIME,
             LDQUO, RDQUO, ELLIPSIS}
      [] fn = "normalizeAccents" -> {"a", "E", "￩", "￉", "￼", "￰", "ￇ"}

RECURSIVE TokenStrings(_, _)
TokenStrings(tokens, n) ==
    IF n = 0 THEN {""}
    ELSE tokens \cup {""} \cup {s \o t : s \in TokenStrings(tokens, n - 1), t \in tokens}

NormInputs(fn) ==
    IF fn \in CharNormalizers THEN TokenStrings(NormTokens(fn), MaxChars)
    ELSE TokenStrings(NormTokens(fn), MaxTokens)

NormInit ==
    /\ normFn \in Normalizers
    /\ normIn \in NormInputs(normFn)
    /\ normOut = "" /\ normAgain = "" /\ normPc = "call"
    /\ FbmIdle
    /\ SimIdle
    /\ ConfIdle
    /\ RunIdle

NormCall ==
    /\ normPc = "call"
    /\ normOut' = ApplyNormalizer(normFn, normIn)
    /\ normPc' = IF normOut' = PANIC THEN "panic" ELSE "ret"
    /\ UNCHANGED <<normFn, normIn, normAgain>>
    /\ UNCHANGED <<fbmVars, simVars, confVars, runVars>>

NormRepeat ==
    /\ normPc = "ret"
    /\ normAgain' = ApplyNormalizer(normFn, normOut)
    /\ normPc' = "again"
    /\ UNCHANGED <<normFn, normIn, normOut>>
    /\ UNCHANGED <<fbmVars, simVars, confVars, runVars>>

NormNext == NormCall \/ NormRepeat

NormSpec == NormInit /\ [][NormNext]_vars

----------------------------------------------------------------------------
(* SyncSpec: MatchSpotifyPlaylist: SearchTrack for every song, one request  *)
(* at a time, then the requests that bring the Plex playlist up to date.    *)
(* The answer of the server to a request is the environment's choice.       *)

MatchTypeError == "error"

\* the songs of the Spotify playlist
SyncSongs == {
    [ID |-> "s1", Name |-> "Don't", Artist |-> "Loote"],
    [ID |-> "s2", Name |-> "Song (Live) with B - Remix", Artist |-> "A feat. B"],
    [ID |-> "s3", Name |-> "Plain", Artist |-> "D'Angelo"] }

\* the track of the library that the searches for a song come up with
PlexTrackOf(song) == [ID |-> "9" \o Tail(song.ID), Title |-> song.Name, Artist |-> song.Artist]

\* the tracks of the playlist of the same name before the call, <<>> standing for
\* an empty playlist; NoPlaylist when there is none
PlaylistsBefore == {NoPlaylist, "empty", "other"}
TracksOfBefore(b) == IF b = "other" THEN <<"77", "91">> ELSE <<>>

\* strings.ReplaceAll(s, old, new) for a non-empty old
RECURSIVE ReplaceAll(_, _, _)
ReplaceAll(s, old, new) ==
    IF s = "" THEN ""
    ELSE IF HasPrefix(s, old) THEN new \o ReplaceAll(Drop(s, Len(old)), old, new)
    ELSE Head(s) \o ReplaceAll(Tail(s), old, new)

Expand(t, old, news) ==
    IF Contains(t, old) THEN [k \in 1..Len(news) |-> ReplaceAll(t, old, news[k])] ELSE <<>>

\* the variations of searchByTitleWithSingleQuoteVariations, in order
QuoteVariations(t) ==
    <<t, ReplaceAll(t, "'", ""), ReplaceAll(t, "'", GRAVE), ReplaceAll(t, "'", PRIME),
      ReplaceAll(t, "'", "'")>>
    \o Expand(t, "n't", <<" not">>) \o Expand(t, "'t", <<" not">>)
    \o Expand(t, "'s", <<" is", "s">>) \o Expand(t, "'re", <<" are">>)
    \o Expand(t, "'ll", <<" will">>) \o Expand(t, "'ve", <<" have">>)
    \o Expand(t, "'d", <<" would", " had">>)

\* a request of strategy name for the title t; n numbers the titles the strategy tries
Query(name, n, kind, t) == [strategy |-> name, attempt |-> n, kind |-> kind, title |-> t]

TitleQueryFirst(name, n, t) ==
    <<Query(name, n, "title", t), Query(name, n, "combined", t), Query(name, n, "artist", t)>>

\* trySearchVariations: the combined query, the title query, the artist query
trySearchVariations(name, n, t) ==
    <<Query(name, n, "combined", t), Query(name, n, "title", t), Query(name, n, "artist", t)>>

\* the loop over the variations: an empty variation is skipped
RECURSIVE QuoteQueries(_, _, _)
QuoteQueries(name, variations, n) ==
    IF n > Len(variations) THEN <<>>
    ELSE (IF variations[n] = "" THEN <<>> ELSE trySearchVariations(name, n, variations[n]))
         \o QuoteQueries(name, variations, n + 1)

searchByTitleWithSingleQuoteVariations(name, t) ==
    IF ~Contains(t, "'") THEN <<Query(name, 1, "title", t)>>
    ELSE QuoteQueries(name, QuoteVariations(t), 1)

\* the names of searchStrategies, in the order of the slice
StrategyNames == <<
    "exact title/artist", "single quote variations", "brackets removed",
    "featuring removed", "artist featuring removed", "normalized title", "with removed",
    "suffixes removed", "accent normalization", "full library search">>

\* the queries that strategy k issues for a song as long as none comes up with a track
StrategyQueries(k, t, a) ==
    LET name == StrategyNames[k]
        none == <<>>
    IN CASE k = 1 -> trySearchVariations(name, 1, t)
         [] k = 2 -> IF Contains(t, "'") \/ Contains(a, "'")
                     THEN searchByTitleWithSingleQuoteVariations(name, t) ELSE none
         [] k = 3 -> IF removeBrackets(t) /= t
                     THEN trySearchVariations(name, 1, removeBrackets(t)) ELSE none
         [] k = 4 -> IF removeFeaturing(t) /= t /\ removeFeaturing(t) /= removeBrackets(t)
                     THEN trySearchVariations(name, 1, removeFeaturing(t)) ELSE none
         [] k = 5 -> IF removeFeaturing(a) /= a
                     THEN trySearchVariations(name, 1, t) ELSE none
         [] k = 6 -> IF /\ normalizeTitle(t) /= t /\ normalizeTitle(t) /= removeBrackets(t)
                        /\ normalizeTitle(t) /= removeFeaturing(t)
                     THEN trySearchVariations(name, 1, normalizeTitle(t)) ELSE none
         [] k = 7 -> IF /\ removeWith(t) /= t /\ removeWith(t) /= removeBrackets(t)
                        /\ removeWith(t) /= removeFeaturing(t)
                        /\ removeWith(t) /= normalizeTitle(t)
                     THEN trySearchVariations(name, 1, removeWith(t)) ELSE none
         [] k = 8 -> IF /\ RemoveCommonSuffixes(t) /= t
                        /\ RemoveCommonSuffixes(t) /= removeBrackets(t)
                        /\ RemoveCommonSuffixes(t) /= removeFeaturing(t)
                        /\ RemoveCommonSuffixes(t) /= normalizeTitle(t)
                        /\ RemoveCommonSuffixes(t) /= removeWith(t)
                     THEN trySearchVariations(name, 1, RemoveCommonSuffixes(t)) ELSE none
         [] k = 9 -> IF normalizeAccents(t) /= t \/ normalizeAccents(a) /= a
                     THEN trySearchVariations(name, 1, normalizeAccents(t))
                     ELSE none
         [] k = 10 -> <<Query(name, 1, "library", t)>>

RECURSIVE QueriesFrom(_, _)
QueriesFrom(k, song) ==
    IF k > Len(StrategyNames) THEN <<>>
    ELSE StrategyQueries(k, song.Name, song.Artist) \o QueriesFrom(k + 1, song)

\* every query SearchTrack issues for a song when no query comes up with a track
SearchPlan == [song \in SyncSongs |-> QueriesFrom(1, song)] @@ <<>>

\* what a request can come to: a track found, no track, or a failed request
SearchOutcomes == {"track", "none", "error"}

SyncInit ==
    /\ songs \in SeqsUpTo(SyncSongs, MaxSongs)
    /\ results = <<>> /\ matchedTrackIDs = <<>>
    /\ queries = <<>> /\ failed = FALSE
    /\ playlistBefore \in PlaylistsBefore
    /\ playlistExists = (playlistBefore /= NoPlaylist)
    /\ playlistTracks = TracksOfBefore(playlistBefore)
    /\ requests = <<>>
    /\ artworkURL \in {"", "https://i.scdn.co/image/1"}
    /\ successCount = 0 /\ added = 0
    /\ syncPc = "songs" /\ syncErr = ""
    /\ CfgIdle /\ MbIdle /\ PpIdle
    /\ FbmIdle /\ SimIdle /\ ConfIdle /\ NormIdle

ErrorOnFailure(trk, anyFailed) ==
    IF trk /= Nil THEN [track |-> trk, matchType |-> MatchTypeTitleArtist, err |-> "nil"]
    ELSE [track |-> Nil, matchType |-> MatchTypeNone,
          err |-> IF anyFailed THEN "search failed" ELSE "nil"]

\* the two return statements of SearchTrack; trk is the track the strategies came
\* up with, or Nil, and anyFailed tells whether a request failed on the way
SearchTrackReturn(trk, anyFailed) ==
    IF trk /= Nil THEN [track |-> trk, matchType |-> MatchTypeTitleArtist, err |-> "nil"]
    ELSE [track |-> Nil, matchType |-> MatchTypeNone, err |-> "nil"]

\* the MatchResult that MatchSpotifyPlaylist stores for what SearchTrack returned;
\* its Confidence is the one of MatchSpec
MatchResultOf(song, ret) ==
    IF ret.err /= "nil"
    THEN [SpotifySong |-> song, PlexTrack |-> Nil, MatchType |-> MatchTypeError]
    ELSE [SpotifySong |-> song, PlexTrack |-> ret.track, MatchType |-> ret.matchType]

\* One request of SearchTrack for the song at hand.  A track ends the search; a failed
\* request and a request that finds nothing move on to the next query, and the search
\* ends without a track after the last one.  When the search ends MatchSpotifyPlaylist
\* stores the MatchResult and, for a track, appends its ID to matchedTrackIDs.
SearchStep ==
    /\ syncPc \in {"songs", "search"} /\ Len(results) < Len(songs)
    /\ LET song == songs[Len(results) + 1]
           plan == SearchPlan[song]
           first == syncPc = "songs"
           log == IF first THEN <<>> ELSE queries
           q == plan[Len(log) + 1]
       IN \E outcome \in SearchOutcomes :
            /\ queries' = Append(log, [strategy |-> q.strategy, attempt |-> q.attempt,
                                      kind |-> q.kind, title |-> q.title,
                                      found |-> outcome = "track"])
            /\ failed' = ((~first /\ failed) \/ outcome = "error")
            /\ IF outcome = "track" \/ Len(log) + 1 = Len(plan)
               THEN LET trk == IF outcome = "track" THEN <<PlexTrackOf(song)>> ELSE Nil
                        ret == SearchTrackReturn(trk, failed')
                    IN /\ results' = Append(results, MatchResultOf(song, ret))
                       /\ matchedTrackIDs' = IF ret.err = "nil" /\ ret.track /= Nil
                                             THEN Append(matchedTrackIDs, ret.track[1].ID)
                                             ELSE matchedTrackIDs
                       /\ syncPc' = "songs"
               ELSE /\ syncPc' = "search"
                    /\ UNCHANGED <<results, matchedTrackIDs>>
    /\ UNCHANGED <<songs, playlistBefore, playlistExists, playlistTracks, requests, artworkURL,
                   successCount, added, syncErr>>
    /\ UNCHANGED <<matcherVars, cfgVars, mbVars, ppVars>>

Request(name, ok) == [name |-> name, ok |-> ok]

SyncFrame == UNCHANGED <<songs, results, matchedTrackIDs, queries, failed, playlistBefore,
                         artworkURL>>

\* the loop over the songs is over: no SearchTrack call is at hand any more
LoopOver ==
    /\ queries' = <<>> /\ failed' = FALSE
    /\ UNCHANGED <<songs, results, matchedTrackIDs, playlistBefore, artworkURL>>

\* len(matchedTrackIDs) == 0: "No tracks matched, skipping playlist creation"
NoTracksMatched ==
    /\ syncPc = "songs" /\ Len(results) = Len(songs) /\ matchedTrackIDs = <<>>
    /\ syncPc' = "done" /\ syncErr' = "nil"
    /\ UNCHANGED <<playlistExists, playlistTracks, requests, successCount, added>>
    /\ LoopOver
    /\ UNCHANGED <<matcherVars, cfgVars, mbVars, ppVars>>

GetPlaylists ==
    /\ syncPc = "songs" /\ Len(results) = Len(songs) /\ matchedTrackIDs /= <<>>
    /\ \E ok \in BOOLEAN :
         /\ requests' = Append(requests, Request("GetPlaylists", ok))
         /\ IF ok THEN syncPc' = "listed" /\ syncErr' = ""
                  ELSE syncPc' = "done" /\ syncErr' = "GetPlaylists"
    /\ UNCHANGED <<playlistExists, playlistTracks, successCount, added>>
    /\ LoopOver
    /\ UNCHANGED <<matcherVars, cfgVars, mbVars, ppVars>>

\* a playlist of this name exists: its metadata is updated, and a failure is only logged
UpdatePlaylistMetadata ==
    /\ syncPc = "listed" /\ playlistExists
    /\ \E ok \in BOOLEAN : requests' = Append(requests, Request("UpdatePlaylistMetadata", ok))
    /\ syncPc' = "clear"
    /\ UNCHANGED <<playlistExists, playlistTracks, successCount, added, syncErr>>
    /\ SyncFrame
    /\ UNCHANGED <<matcherVars, cfgVars, mbVars, ppVars>>

CreateFailureIgnored ==
    /\ syncPc = "listed" /\ ~playlistExists
    /\ \E ok \in BOOLEAN :
         /\ requests' = Append(requests, Request("CreatePlaylist", ok))
         /\ playlistExists' = ok /\ playlistTracks' = <<>>
         /\ syncPc' = "clear" /\ syncErr' = ""
    /\ UNCHANGED <<successCount, added>>
    /\ SyncFrame
    /\ UNCHANGED <<matcherVars, cfgVars, mbVars, ppVars>>

CreatePlaylist ==
    /\ syncPc = "listed" /\ ~playlistExists
    /\ \E ok \in BOOLEAN :
         /\ requests' = Append(requests, Request("CreatePlaylist", ok))
         /\ IF ok THEN /\ playlistExists' = TRUE /\ playlistTracks' = <<>>
                       /\ syncPc' = "clear" /\ syncErr' = ""
                  ELSE /\ UNCHANGED <<playlistExists, playlistTracks>>
                       /\ syncPc' = "done" /\ syncErr' = "CreatePlaylist"
    /\ UNCHANGED <<successCount, added>>
    /\ SyncFrame
    /\ UNCHANGED <<matcherVars, cfgVars, mbVars, ppVars>>

ClearPlaylist ==
    /\ syncPc = "clear"
    /\ \E ok \in BOOLEAN :
         /\ requests' = Append(requests, Request("ClearPlaylist", ok))
         /\ IF ok THEN playlistTracks' = <<>> /\ syncPc' = "add" /\ syncErr' = ""
                  ELSE /\ UNCHANGED playlistTracks
                       /\ syncPc' = "done" /\ syncErr' = "ClearPlaylist"
    /\ UNCHANGED <<playlistExists, successCount, added>>
    /\ SyncFrame
    /\ UNCHANGED <<matcherVars, cfgVars, mbVars, ppVars>>

\* One PUT of AddTracksToPlaylist.  A request that fails, or that the server answers
\* with leafCountAdded="0", adds nothing and is skipped.  After the last track the call
\* fails only when successCount is 0.
AddTrackStep ==
    /\ syncPc = "add" /\ added < Len(matchedTrackIDs)
    /\ \E ok \in BOOLEAN :
         /\ requests' = Append(requests, Request("AddTracksToPlaylist", ok))
         /\ playlistTracks' = IF ok THEN Append(playlistTracks, matchedTrackIDs[added + 1])
                                    ELSE playlistTracks
         /\ successCount' = IF ok THEN successCount + 1 ELSE successCount
    /\ added' = added + 1
    /\ IF added' < Len(matchedTrackIDs) THEN UNCHANGED <<syncPc, syncErr>>
       ELSE IF successCount' = 0 THEN syncPc' = "done" /\ syncErr' = "AddTracksToPlaylist"
       ELSE IF artworkURL /= "" THEN syncPc' = "poster" /\ syncErr' = ""
       ELSE syncPc' = "done" /\ syncErr' = "nil"
    /\ UNCHANGED playlistExists
    /\ SyncFrame
    /\ UNCHANGED <<matcherVars, cfgVars, mbVars, ppVars>>

\* SetPlaylistPosterUsingPlexgo: a failure is only logged
SetPlaylistPoster ==
    /\ syncPc = "poster"
    /\ \E ok \in BOOLEAN : requests' = Append(requests, Request("SetPlaylistPoster", ok))
    /\ syncPc' = "done" /\ syncErr' = "nil"
    /\ UNCHANGED <<playlistExists, playlistTracks, successCount, added>>
    /\ SyncFrame
    /\ UNCHANGED <<matcherVars, cfgVars, mbVars, ppVars>>

SyncNext ==
    \/ SearchStep \/ NoTracksMatched \/ GetPlaylists \/ UpdatePlaylistMetadata
    \/ CreatePlaylist \/ ClearPlaylist \/ AddTrackStep \/ SetPlaylistPoster

SyncSpec == SyncInit /\ [][SyncNext]_vars

----------------------------------------------------------------------------
(* LoadWithOverrides (package config): the configuration is built from the  *)
(* defaults, the system environment, the .env file and the CLI overrides,   *)
(* in this order, and validated.                                            *)

Getenv(env, key) == IF env[key] = Unset THEN "" ELSE env[key]

\* godotenv.Load: the variables of the .env file enter the process environment,
\* except those the environment already has
GodotenvLoad(env, file) ==
    [k \in CfgKeySet |-> IF env[k] = Unset THEN file[k] ELSE env[k]]

\* strconv.Atoi: <<n>> for a decimal number with an optional sign, <<>> for an error
DigitValue(c) == CHOOSE d \in 0..9 : At("0123456789", d + 1) = c
RECURSIVE Atou(_, _)
Atou(s, acc) == IF s = "" THEN acc ELSE Atou(Tail(s), 10 * acc + DigitValue(Head(s)))
Atoi(s) ==
    LET body == IF s /= "" /\ Head(s) \in {"+", "-"} THEN Tail(s) ELSE s
    IN  IF body = "" \/ \E k \in 1..Len(body) : ~IsDigit(At(body, k)) THEN <<>>
        ELSE IF Head(s) = "-" THEN <<-Atou(body, 0)>> ELSE <<Atou(body, 0)>>

parseLibrarySectionID(value) ==
    IF value = "0" \/ value = "your_music_library_section_id" THEN <<0>> ELSE Atoi(value)

TrimAll(items) == [k \in 1..Len(items) |-> TrimSpace(items[k])]
parseCommaSeparatedList(input) == IF input = "" THEN <<>> ELSE TrimAll(Split(input, ","))

\* one case of the switch of applyOverrides; loadFromOSEnv and loadFromEnvFile
\* hold the same assignments, one if statement per variable
SetKey(c, key, value) ==
    CASE key = "SPOTIFY_CLIENT_ID" -> [c EXCEPT !.ClientID = value]
      [] key = "SPOTIFY_CLIENT_SECRET" -> [c EXCEPT !.ClientSecret = value]
      [] key = "SPOTIFY_REDIRECT_URI" -> [c EXCEPT !.RedirectURI = value]
      [] key = "SPOTIFY_USERNAME" -> [c EXCEPT !.Username = value]
      [] key = "SPOTIFY_PLAYLIST_ID" ->
            [c EXCEPT !.PlaylistIDs = parseCommaSeparatedList(value)]
      [] key = "SPOTIFY_PLAYLIST_EXCLUDED_ID" ->
            [c EXCEPT !.ExcludedPlaylistIDs = parseCommaSeparatedList(value)]
      [] key = "PLEX_URL" -> [c EXCEPT !.URL = value]
      [] key = "PLEX_TOKEN" -> [c EXCEPT !.Token = value]
      [] key = "PLEX_LIBRARY_SECTION_ID" ->
            IF parseLibrarySectionID(value) /= <<>>
            THEN [c EXCEPT !.LibrarySectionID = parseLibrarySectionID(value)[1]]
            ELSE c
      [] key = "PLEX_SERVER_ID" -> [c EXCEPT !.ServerID = value]

RECURSIVE ApplyFrom(_, _, _)
\* the values of the map m applied to c key by key, empty values skipped
ApplyFrom(c, m, n) ==
    IF n > Len(CfgKeys) THEN c
    ELSE LET key == CfgKeys[n]
         IN  ApplyFrom(IF m[key] /= "" THEN SetKey(c, key, m[key]) ELSE c, m, n + 1)

FromEnviron(env) == [k \in CfgKeySet |-> Getenv(env, k)]

initializeDefaults(c) == [ZeroConfig EXCEPT !.RedirectURI = "http://localhost:8080/callback"]
loadFromOSEnv(c, env) == ApplyFrom(c, FromEnviron(env), 1)
loadFromEnvFile(c, env) == ApplyFrom(c, FromEnviron(env), 1)
applyOverrides(c, m) == ApplyFrom(c, FromEnviron(m), 1)

\* validate: the missing fields, in the order of the checks
Missing(cond, name) == IF cond THEN <<name>> ELSE <<>>
missingFields(c) ==
    Missing(c.ClientID = "", "SPOTIFY_CLIENT_ID")
    \o Missing(c.ClientSecret = "", "SPOTIFY_CLIENT_SECRET")
    \o Missing(c.URL = "", "PLEX_URL")
    \o Missing(c.Token = "", "PLEX_TOKEN")
    \o Missing(c.LibrarySectionID = 0, "PLEX_LIBRARY_SECTION_ID")
    \o Missing(c.Username = "" /\ Len(c.PlaylistIDs) = 0,
               "SPOTIFY_USERNAME or SPOTIFY_PLAYLIST_ID")

\* the settings that vary between the sources, each with the values a source gives it
SystemValues == [SPOTIFY_USERNAME |-> {Unset, "", "user2"},
                 PLEX_LIBRARY_SECTION_ID |-> {Unset, "1", "abc"},
                 SPOTIFY_PLAYLIST_ID |-> {Unset, "p1, p2"}]
FileValues == [SPOTIFY_USERNAME |-> {Unset, "user1"},
               PLEX_LIBRARY_SECTION_ID |-> {Unset, "2"},
               SPOTIFY_PLAYLIST_ID |-> {Unset}]
OverrideValues == [SPOTIFY_USERNAME |-> {Unset, "", "user3"},
                   PLEX_LIBRARY_SECTION_ID |-> {Unset, "3"},
                   SPOTIFY_PLAYLIST_ID |-> {Unset}]
\* the credentials, which the system environment holds in every run
Credentials == [SPOTIFY_CLIENT_ID |-> "id", SPOTIFY_CLIENT_SECRET |-> "secret",
                PLEX_URL |-> "http://plex:32400", PLEX_TOKEN |-> "token"]

Sources(values, fixed) ==
    {[k \in CfgKeySet |-> CASE k = "SPOTIFY_USERNAME" -> u
                           [] k = "PLEX_LIBRARY_SECTION_ID" -> l
                           [] k = "SPOTIFY_PLAYLIST_ID" -> p
                           [] k \in DOMAIN fixed -> fixed[k]
                           [] OTHER -> Unset] :
        u \in values.SPOTIFY_USERNAME, l \in values.PLEX_LIBRARY_SECTION_ID,
        p \in values.SPOTIFY_PLAYLIST_ID}

ConfigInit ==
    /\ sysEnv \in Sources(SystemValues, Credentials)
    /\ envFileExists \in BOOLEAN
    /\ envFile \in IF envFileExists THEN Sources(FileValues, <<>>) ELSE {NoVars}
    /\ overrides \in Sources(OverrideValues, <<>>)
    /\ environ = sysEnv
    /\ config = ZeroConfig
    /\ cfgPc = "defaults" /\ cfgErr = ""
    /\ SyncIdle /\ MbIdle /\ PpIdle
    /\ FbmIdle /\ SimIdle /\ ConfIdle /\ NormIdle

CfgFrame == UNCHANGED <<sysEnv, envFileExists, envFile, overrides, syncVars, mbVars,
                        ppVars, matcherVars>>

\* Step 1
InitializeDefaults ==
    /\ cfgPc = "defaults"
    /\ config' = initializeDefaults(config)
    /\ cfgPc' = "osenv"
    /\ UNCHANGED <<environ, cfgErr>>
    /\ CfgFrame

\* Step 2
LoadFromOSEnv ==
    /\ cfgPc = "osenv"
    /\ config' = loadFromOSEnv(config, environ)
    /\ cfgPc' = "envfile"
    /\ UNCHANGED <<environ, cfgErr>>
    /\ CfgFrame

\* Step 3, without a .env file: godotenv.Load fails and the step is skipped
NoEnvFile ==
    /\ cfgPc = "envfile"
    /\ ~envFileExists
    /\ cfgPc' = "overrides"
    /\ UNCHANGED <<environ, config, cfgErr>>
    /\ CfgFrame

\* Step 3, with a .env file
LoadFromEnvFile ==
    /\ cfgPc = "envfile"
    /\ envFileExists
    /\ environ' = GodotenvLoad(environ, envFile)
    /\ config' = loadFromEnvFile(config, environ')
    /\ cfgPc' = "overrides"
    /\ UNCHANGED cfgErr
    /\ CfgFrame

\* Step 4
ApplyOverrides ==
    /\ cfgPc = "overrides"
    /\ config' = applyOverrides(config, overrides)
    /\ cfgPc' = "validate"
    /\ UNCHANGED <<environ, cfgErr>>
    /\ CfgFrame

Validate ==
    /\ cfgPc = "validate"
    /\ cfgErr' = IF Len(missingFields(config)) > 0
                 THEN "missing required configuration values" ELSE "nil"
    /\ cfgPc' = "done"
    /\ UNCHANGED <<environ, config>>
    /\ CfgFrame

ConfigNext ==
    \/ InitializeDefaults \/ LoadFromOSEnv \/ NoEnvFile \/ LoadFromEnvFile
    \/ ApplyOverrides \/ Validate

ConfigSpec == ConfigInit /\ [][ConfigNext]_vars

----------------------------------------------------------------------------
(* PopulateMusicBrainzIDs (package spotify) with the two lookups of the     *)
(* MusicBrainz client.  A lookup returns an ID, or "" with an error.        *)

\* the songs MatchSpotifyPlaylist found no track for; MusicBrainzID is "" in a new Song
MissingSongs == {
    [Name |-> "Don't", Artist |-> "Loote", ISRC |-> "USUM71703861", MusicBrainzID |-> ""],
    [Name |-> "Plain", Artist |-> "D'Angelo", ISRC |-> "", MusicBrainzID |-> ""],
    [Name |-> "Untitled", Artist |-> "", ISRC |-> "GBAYE0601498", MusicBrainzID |-> ""],
    [Name |-> "", Artist |-> "", ISRC |-> "", MusicBrainzID |-> ""]}

\* the recording ID in an answer; a recording element may come without an id
RecordingIDs(kind) == {"", "mbid-" \o kind}

\* the (string, error) pairs a lookup can return for its request
Returns(kind) ==
    {[id |-> r, err |-> FALSE] : r \in RecordingIDs(kind)} \cup {[id |-> "", err |-> TRUE]}

Lookup(n, kind, ret) == [song |-> n, kind |-> kind, id |-> ret.id, err |-> ret.err]

MbInit ==
    /\ mbSongs \in SeqsUpTo(MissingSongs, MaxSongs)
    /\ mbLog = <<>> /\ mbIdx = 0 /\ mbPc = "song"
    /\ SyncIdle /\ CfgIdle /\ PpIdle
    /\ FbmIdle /\ SimIdle /\ ConfIdle /\ NormIdle

MbFrame == UNCHANGED <<syncVars, cfgVars, ppVars, matcherVars>>

\* err == nil && musicBrainzID != ""
Obtained(ret) == ~ret.err /\ ret.id /= ""

\* the first if statement without its continue
NoContinue ==
    /\ mbPc = "song"
    /\ mbIdx < Len(mbSongs)
    /\ mbSongs[mbIdx + 1].ISRC /= ""
    /\ \E ret \in Returns("isrc") :
        /\ mbLog' = Append(mbLog, Lookup(mbIdx + 1, "isrc", ret))
        /\ mbSongs' = IF Obtained(ret)
                      THEN [mbSongs EXCEPT ![mbIdx + 1].MusicBrainzID = ret.id]
                      ELSE mbSongs
        /\ mbPc' = "fallback"
        /\ UNCHANGED mbIdx
    /\ MbFrame

\* the first if statement of the loop body, for a song with an ISRC
GetMusicBrainzIDByISRC ==
    /\ mbPc = "song"
    /\ mbIdx < Len(mbSongs)
    /\ mbSongs[mbIdx + 1].ISRC /= ""
    /\ \E ret \in Returns("isrc") :
        /\ mbLog' = Append(mbLog, Lookup(mbIdx + 1, "isrc", ret))
        /\ IF Obtained(ret)
           THEN /\ mbSongs' = [mbSongs EXCEPT ![mbIdx + 1].MusicBrainzID = ret.id]
                /\ mbIdx' = mbIdx + 1
                /\ mbPc' = "song"
           ELSE /\ mbPc' = "fallback"
                /\ UNCHANGED <<mbSongs, mbIdx>>
    /\ MbFrame

\* GetMusicBrainzIDByArtistAndTitle returns an error at once, with no request, when the
\* artist or the title is empty
NoRequest(song) == song.Artist = "" \/ song.Name = ""

\* the rest of the loop body
GetMusicBrainzIDByArtistAndTitle ==
    /\ mbIdx < Len(mbSongs)
    /\ mbPc = "fallback" \/ (mbPc = "song" /\ mbSongs[mbIdx + 1].ISRC = "")
    /\ LET song == mbSongs[mbIdx + 1]
       IN  \E ret \in Returns("search") :
            /\ NoRequest(song) => ret.err
            /\ mbLog' = IF NoRequest(song) THEN mbLog
                        ELSE Append(mbLog, Lookup(mbIdx + 1, "search", ret))
            /\ mbSongs' = IF Obtained(ret)
                          THEN [mbSongs EXCEPT ![mbIdx + 1].MusicBrainzID = ret.id]
                          ELSE mbSongs
    /\ mbIdx' = mbIdx + 1
    /\ mbPc' = "song"
    /\ MbFrame

MbReturn ==
    /\ mbPc = "song"
    /\ mbIdx = Len(mbSongs)
    /\ mbPc' = "done"
    /\ UNCHANGED <<mbSongs, mbLog, mbIdx>>
    /\ MbFrame

MbNext == GetMusicBrainzIDByISRC \/ GetMusicBrainzIDByArtistAndTitle \/ MbReturn

MbSpec == MbInit /\ [][MbNext]_vars

----------------------------------------------------------------------------
(* processPlaylists and processPlaylist (package main).  Each of the three  *)
(* calls of processPlaylist that return an error may fail.                  *)

PlaylistIDs == {"37i9dQZF1DXcBWIGoYBM5M", "5FJXhjdILmRA2z5bvz4nzf"}

ProcessInit ==
    /\ playlistMetas \in SeqsUpTo(PlaylistIDs, MaxPlaylists)
    /\ attempted = <<>> /\ logged = <<>> /\ playlistIndex = 0
    /\ ppPc = "range" /\ ppErr = ""
    /\ SyncIdle /\ CfgIdle /\ MbIdle
    /\ FbmIdle /\ SimIdle /\ ConfIdle /\ NormIdle

PpFrame == UNCHANGED <<playlistMetas, syncVars, cfgVars, mbVars, matcherVars>>

\* processPlaylist returned nil: the loop goes on with the next playlist
Processed ==
    /\ playlistIndex' = playlistIndex + 1
    /\ ppPc' = "range"
    /\ UNCHANGED <<logged, ppErr>>

\* the error of a playlist ends the loop: return err in place of continue
ReturnError(err) ==
    /\ logged' = Append(logged, playlistMetas[playlistIndex + 1])
    /\ ppErr' = err
    /\ ppPc' = "done"
    /\ UNCHANGED playlistIndex

\* processPlaylist returned err: log.Printf and continue
LogAndContinue(err) ==
    /\ logged' = Append(logged, playlistMetas[playlistIndex + 1])
    /\ playlistIndex' = playlistIndex + 1
    /\ ppPc' = "range"
    /\ UNCHANGED ppErr

\* the next iteration calls processPlaylist, which starts with RefreshToken
RefreshToken ==
    /\ ppPc = "range"
    /\ playlistIndex < Len(playlistMetas)
    /\ attempted' = Append(attempted, playlistMetas[playlistIndex + 1])
    /\ \/ ppPc' = "songs" /\ UNCHANGED <<logged, playlistIndex, ppErr>>
       \/ LogAndContinue("failed to refresh Spotify token")
    /\ PpFrame

GetPlaylistSongs ==
    /\ ppPc = "songs"
    /\ \/ ppPc' = "match" /\ UNCHANGED <<logged, playlistIndex, ppErr>>
       \/ LogAndContinue("failed to fetch playlist songs")
    /\ UNCHANGED attempted
    /\ PpFrame

\* MatchSpotifyPlaylist and the rest of processPlaylist, which cannot fail
MatchAndDisplay ==
    /\ ppPc = "match"
    /\ \/ Processed
       \/ LogAndContinue("failed to match songs to Plex")
    /\ UNCHANGED attempted
    /\ PpFrame

AllProcessed ==
    /\ ppPc = "range"
    /\ playlistIndex = Len(playlistMetas)
    /\ ppPc' = "done"
    /\ ppErr' = "nil"
    /\ UNCHANGED <<attempted, logged, playlistIndex>>
    /\ PpFrame

ProcessNext == RefreshToken \/ GetPlaylistSongs \/ MatchAndDisplay \/ AllProcessed

ProcessSpec == ProcessInit /\ [][ProcessNext]_vars

----------------------------------------------------------------------------
(* The claims about FindBestMatch, stated over its arguments *)

T(k) == TitleSim(tracks[k])
A(k) == ArtistSim(tracks[k])
Score(k) == RAdd(RMul(<<7, 10>>, T(k)), RMul(<<3, 10>>, A(k)))
Positions == 1..Len(tracks)

ExactAt(k) ==
    /\ ToLower(TrimSpace(tracks[k].Title)) = ToLower(TrimSpace(title))
    /\ ToLower(TrimSpace(tracks[k].Artist)) = ToLower(TrimSpace(artist))
PerfectAt(k) == T(k) = One /\ A(k) = One
VariousAt(k) == ToLower(TrimSpace(tracks[k].Artist)) = "various artists"
MismatchAt(k) ==
    \/ RLess(<<9, 10>>, T(k)) /\ RLess(A(k), <<3, 10>>)
    \/ RLess(<<7, 10>>, T(k)) /\ RLess(A(k), <<2, 10>>)
RejectedAt(k) == MismatchAt(k) /\ ~VariousAt(k)

HasExact == \E k \in Positions : ExactAt(k)
HasPerfect == \E k \in Positions : PerfectAt(k)
Eligible == {k \in Positions : ~RejectedAt(k)}
FirstExact == CHOOSE k \in Positions : ExactAt(k) /\ \A j \in 1..(k - 1) : ~ExactAt(j)
FirstPerfect == CHOOSE k \in Positions : PerfectAt(k) /\ \A j \in 1..(k - 1) : ~PerfectAt(j)

C2_NoMismatchReturned ==
    (Returned /\ result /= Nil) =>
        \E k \in Positions : tracks[k] = result[1] /\ (VariousAt(k) \/ ~MismatchAt(k))

C2_Witness ==
    /\ Returned /\ result /= Nil
    /\ \E k \in Positions, j \in Positions :
          /\ tracks[k] = result[1] /\ ~VariousAt(k)
          /\ RejectedAt(j) /\ RLess(Score(k), Score(j))

\* ranks higher: an exact match, or a non-rejected candidate with a greater score,
\* or with an equal score and a greater artist similarity, or equal in both and
\* earlier in the list
Outranks(j, k) ==
    /\ j /= k
    /\ \/ ExactAt(j)
       \/ /\ ~RejectedAt(j)
          /\ \/ RLess(Score(k), Score(j))
             \/ Score(j) = Score(k) /\ RLess(A(k), A(j))
             \/ Score(j) = Score(k) /\ A(j) = A(k) /\ j < k

\* C3: a "various artists" candidate with title similarity 1.0 that no other
\* candidate outranks is returned however low its artist similarity; a candidate
\* with title similarity 1.0 and any other artist of similarity < 0.3 is not returned.
C3_VariousArtistsExempt ==
    Returned =>
        \A k \in Positions :
            /\ (VariousAt(k) /\ T(k) = One /\ \A j \in Positions : ~Outranks(j, k))
                  => result = <<tracks[k]>>
            /\ (~VariousAt(k) /\ T(k) = One /\ RLess(A(k), <<3, 10>>))
                  => result /= <<tracks[k]>>

C3_Witness ==
    /\ Returned
    /\ \E k \in Positions, j \in Positions :
          /\ VariousAt(k) /\ T(k) = One /\ RLess(A(k), <<2, 10>>)
          /\ result = <<tracks[k]>>
          /\ ~VariousAt(j) /\ T(j) = One /\ RLess(A(j), <<3, 10>>)

\* C4: if some candidate equals the target in lower-cased, trimmed title and artist,
\* the first such candidate in list order is returned, whatever the other candidates.
C4_FirstExactReturned ==
    (Returned /\ HasExact) => (pc = "ret_exact" /\ result = <<tracks[FirstExact]>>)

C4_Witness ==
    /\ pc = "ret_exact"
    /\ \E j \in 1..(FirstExact - 1) : PerfectAt(j)
    /\ \E j \in Positions : VariousAt(j)

C6_PerfectShortCircuit ==
    (Returned /\ ~HasExact /\ HasPerfect) =>
        /\ pc = "ret_perfect"
        /\ result = <<tracks[FirstPerfect]>>
        /\ track = tracks[FirstPerfect]
        /\ idx = FirstPerfect - 1

C6_Witness ==
    /\ pc = "ret_perfect" /\ ~HasExact
    /\ FirstPerfect > 1 /\ FirstPerfect < Len(tracks)

\* the steps FindBestMatch has left at most
Measure ==
    CASE pc = "start" -> 2 * Len(tracks) + 3
      [] pc = "exact" -> 2 * Len(tracks) + 2 - idx
      [] pc = "scan" -> Len(tracks) + 1 - idx
      [] OTHER -> 0

C7_Safe ==
    /\ pc /= "panic"
    /\ ~Returned => pc \in {"start", "exact", "scan"} /\ idx \in 0..Len(tracks)
    /\ bestMatch /= Nil => \E k \in 1..idx + 1 : k <= Len(tracks) /\ bestMatch = <<tracks[k]>>
    /\ Returned =>
          /\ result = Nil \/ \E k \in Positions : result = <<tracks[k]>>
          /\ pc \in {"ret_exact", "ret_perfect"} => result = <<tracks[idx + 1]>>
          /\ pc = "ret_best" => result = bestMatch
          /\ tracks = <<>> => result = Nil

----------------------------------------------------------------------------
(* The claims about calculateStringSimilarity *)

\* C8: calculateStringSimilarity(a, b) = calculateStringSimilarity(b, a) for all
\* strings, repeated words included.
C8_Symmetric ==
    simPc = "ret" => simResult = calculateStringSimilarity(s2, s1)

\* C9: the similarity lies in [0, 1]; it is 1 for equal non-empty strings and 0
\* when exactly one of the two is empty.
C9_Bounds ==
    simPc = "ret" =>
        /\ RLeq(Zero, simResult) /\ RLeq(simResult, One)
        /\ (s1 = s2 /\ s1 /= "") => simResult = One
        /\ ((s1 = "") /= (s2 = "")) => simResult = Zero

C9_Witness ==
    /\ simPc = "ret" /\ s1 /= s2
    /\ simMatching > 0 /\ simResult = One

Min(a, b) == IF a < b THEN a ELSE b

\* C10: the word step consumes matched words, so the count of matching words is at
\* most min(wordCount(a), wordCount(b)).
C10_MatchesConsumed ==
    (simPc = "ret" /\ simMatching /= -1) =>
        simMatching <= Min(Len(Fields(s1)), Len(Fields(s2)))

----------------------------------------------------------------------------
(* The claims about calculateConfidence and punctuation *)

\* C11: every track FindBestMatch returns for a song has a calculateConfidence of
\* MinConfidenceScore (0.7) or more, so every MatchResult with a track has
\* Confidence >= 0.7.
C11_ConfidenceAtLeastMin ==
    (pc = "conf" /\ result /= Nil) => RLeq(MinConfidenceScore, confidence)

\* the similarity the claim states for one field: the greatest over the variants
RECURSIVE MaxOver(_)
MaxOver(sims) == IF Len(sims) = 1 THEN sims[1] ELSE RMax(sims[1], MaxOver(Tail(sims)))

ClaimedTitleSimilarity(a, b) ==
    MaxOver(<<LowerSimilarity(a, b),
              LowerSimilarity(removeBrackets(a), removeBrackets(b)),
              LowerSimilarity(removeFeaturing(a), removeFeaturing(b)),
              LowerSimilarity(normalizeTitle(a), normalizeTitle(b)),
              LowerSimilarity(removeWith(a), removeWith(b)),
              LowerSimilarity(RemoveCommonSuffixes(a), RemoveCommonSuffixes(b)),
              LowerSimilarity(normalizeAccents(a), normalizeAccents(b))>>)

ClaimedArtistSimilarity(a, b) ==
    MaxOver(<<LowerSimilarity(a, b),
              LowerSimilarity(removeFeaturing(a), removeFeaturing(b)),
              LowerSimilarity(normalizePunctuation(a), normalizePunctuation(b)),
              LowerSimilarity(normalizeAccents(a), normalizeAccents(b))>>)

\* C12: calculateConfidence is 0.7 * best title similarity + 0.3 * best artist
\* similarity, the artist similarity being the greatest over the original, the
\* removeFeaturing, the normalizePunctuation and the normalizeAccents variants.
C12_ConfidenceFormula ==
    (pc = "conf" /\ result /= Nil) =>
        confidence = RAdd(RMul(<<7, 10>>, ClaimedTitleSimilarity(title, result[1].Title)),
                          RMul(<<3, 10>>, ClaimedArtistSimilarity(artist, result[1].Artist)))

\* the ASCII spelling of a string: every Unicode dash as "-", the multiplication
\* sign as "x", every curly or prime apostrophe as "'", every curly double quote
\* as the straight one, the ellipsis character as three periods
AsciiSpellingOf(c) ==
    IF c \in {HYPHEN, ENDASH, EMDASH, HBAR} THEN "-"
    ELSE IF c = "ￗ" THEN "x"
    ELSE IF c \in {LSQUO, RSQUO, GRAVE, PRIME} THEN "'"
    ELSE IF c \in {LDQUO, RDQUO} THEN "\""
    ELSE IF c = ELLIPSIS THEN "..."
    ELSE c

RECURSIVE AsciiSpelling(_)
AsciiSpelling(s) == IF s = "" THEN "" ELSE AsciiSpellingOf(Head(s)) \o AsciiSpelling(Tail(s))

\* the k-th candidate differs from the target by visually equivalent punctuation only
SameButPunctuation(k) ==
    /\ AsciiSpelling(tracks[k].Title) = AsciiSpelling(title)
    /\ AsciiSpelling(tracks[k].Artist) = AsciiSpelling(artist)

\* C13: when the list holds a candidate whose title and artist differ from the
\* target's only by visually equivalent punctuation, FindBestMatch returns a track.
C13_PunctuationVariantsMatch ==
    (Returned /\ \E k \in 1..Len(tracks) : SameButPunctuation(k)) => result /= Nil

\* C14: normalizePunctuation writes every en dash, em dash and horizontal bar as "-",
\* every multiplication sign as "x", every curly or prime apostrophe as "'", every
\* curly double quote as the straight one and every ellipsis character as three
\* periods, and leaves every other character as it is.
C14_PunctuationReplaced ==
    (normPc = "ret" /\ normFn = "normalizePunctuation") => normOut = AsciiSpelling(normIn)

\* C15: FindBestMatchWithNormalizedPunctuation applies the guards and the threshold
\* of FindBestMatch to its own similarities: it returns a track exactly when some
\* candidate that the guards of FindBestMatch (with the "various artists"
\* exception) do not reject has a combined score of 0.7 or more.
C15_SameGuardsAndThreshold ==
    NpReturned =>
        (result /= Nil <=>
            \E k \in 1..Len(tracks) :
                /\ ~Rejected(NpTitleSim(tracks[k]), NpArtistSim(tracks[k]), tracks[k].Artist)
                /\ RLeq(<<7, 10>>, CombinedScore(NpTitleSim(tracks[k]), NpArtistSim(tracks[k]))))

----------------------------------------------------------------------------
(* The claims about the normalizers *)

\* C16: removeFeaturing, removeWith and RemoveCommonSuffixes are idempotent: applied
\* to their own result they return it unchanged, also for several markers, several
\* occurrences of "with" or stacked suffixes.
C16_TruncatingIdempotent ==
    (normPc = "again" /\ normFn \in {"removeFeaturing", "removeWith", "RemoveCommonSuffixes"})
        => normAgain = normOut

\* C17: removeBrackets, normalizeTitle, normalizePunctuation and normalizeAccents are
\* idempotent: applied to their own result they return it unchanged.
C17_RewritingIdempotent ==
    (normPc = "again" /\ normFn \in {"removeBrackets", "normalizeTitle", "normalizePunctuation",
                                     "normalizeAccents"})
        => normAgain = normOut

\* the cut the claim describes: before the rightmost occurrence of any of the five
\* markers in the lower-cased string, the prefix trimmed and in its original casing
MarkerOccurrences(lowerS) ==
    UNION {Occurrences(lowerS, FeaturingPatterns[k]) : k \in 1..Len(FeaturingPatterns)}

ClaimedRemoveFeaturing(s) ==
    LET all == MarkerOccurrences(ToLower(s))
        last == CHOOSE i \in all : \A j \in all : i >= j
    IN IF all = {} THEN s ELSE TrimSpace(Take(s, last - 1))

\* C18: removeFeaturing cuts at the rightmost occurrence of any of the five markers,
\* taken together, and returns the trimmed prefix in its original casing; with no
\* occurrence it returns the input unchanged.
C18_CutsAtRightmostMarker ==
    (normPc = "ret" /\ normFn = "removeFeaturing") => normOut = ClaimedRemoveFeaturing(normIn)

\* the whole-word occurrences of "with" that text follows: those that are not the
\* final token of the string
WithBeforeText(s) ==
    {i \in WithMatches(ToLower(s)) : TrimSpace(Drop(s, i + 3)) /= ""}

ClaimedRemoveWith(s) ==
    LET occ == WithBeforeText(s)
        last == CHOOSE i \in occ : \A j \in occ : i >= j
    IN IF occ = {} THEN s
       ELSE TrimSpace(TrimSuffix(TrimSpace(Take(s, last - 1)), "-"))

\* C19: for an input that does not start with "with ", removeWith cuts before the last
\* whole-word occurrence of "with" that is not the final token, strips a trailing dash
\* and whitespace, and returns the input unchanged when there is no such occurrence.
C19_CutsBeforeLastInnerWith ==
    (normPc = "ret" /\ normFn = "removeWith" /\ ~HasPrefix(ToLower(normIn), "with "))
        => normOut = ClaimedRemoveWith(normIn)

\* whitespace that removeBrackets cleans up: at either end, a run, or a tab
IrregularSpace(s) ==
    \/ TrimSpace(s) /= s
    \/ \E i \in 1..Len(s) : IsReSpace(At(s, i)) /\ (At(s, i) /= " " \/ (i < Len(s) /\ IsReSpace(At(s, i + 1))))

ContainsAny(s, chars) == \E i \in 1..Len(s) : \E k \in 1..Len(chars) : At(s, i) = At(chars, k)

\* does s contain a pattern the normalizer fn looks for
TargetsPattern(fn, s) ==
    CASE fn = "removeBrackets" -> ContainsAny(s, "([{") \/ IrregularSpace(s)
      [] fn = "removeFeaturing" -> MarkerOccurrences(ToLower(s)) /= {}
      [] fn = "removeWith" -> Contains(ToLower(s), "with")
      [] fn = "RemoveCommonSuffixes" -> ContainsAny(s, "-(")
      [] fn = "normalizePunctuation" ->
            \E i \in 1..Len(s) : AsciiSpellingOf(At(s, i)) /= At(s, i)
      [] fn = "normalizeAccents" -> ContainsAny(s, AccentFrom)

TotalNormalizers ==
    {"removeBrackets", "removeFeaturing", "removeWith", "RemoveCommonSuffixes",
     "normalizePunctuation", "normalizeAccents"}

\* C20: the six normalizers never panic, and return the input unchanged when it holds
\* none of the patterns they look for (the empty string in particular).
C20_TotalAndNoOp ==
    normFn \in TotalNormalizers =>
        /\ normPc /= "panic"
        /\ (normPc = "ret" /\ ~TargetsPattern(normFn, normIn)) => normOut = normIn

\* C21: for a target with a non-empty title and a non-empty artist, FindBestMatch
\* never returns a track whose title and artist are both empty.
C21_NoEmptyTrackReturned ==
    (Returned /\ title /= "" /\ artist /= "" /\ result /= Nil)
        => ~(result[1].Title = "" /\ result[1].Artist = "")

----------------------------------------------------------------------------
(* The claims about SearchTrack and MatchSpotifyPlaylist *)

Done == syncPc = "done"
ReturnedError == Done /\ syncErr /= "nil"

\* the IDs of the tracks of the MatchResults, in the order of the songs
RECURSIVE MatchedIn(_)
MatchedIn(rs) ==
    IF rs = <<>> THEN <<>>
    ELSE (IF Head(rs).PlexTrack = Nil THEN <<>> ELSE <<Head(rs).PlexTrack[1].ID>>)
         \o MatchedIn(Tail(rs))

\* C22: when MatchSpotifyPlaylist returns without error and a song was matched, the
\* Plex playlist of that name holds exactly the matched tracks, in the order of the
\* songs.
C22_PlaylistHoldsMatched ==
    (Done /\ syncErr = "nil" /\ MatchedIn(results) /= <<>>)
        => (playlistExists /\ playlistTracks = MatchedIn(results))

\* the order of the strategies in the README, sections 1 to 8
DocumentedOrder == <<
    "exact title/artist", "single quote variations", "brackets removed",
    "featuring removed", "normalized title", "with removed", "suffixes removed",
    "full library search">>

Documented(name) == \E k \in 1..Len(DocumentedOrder) : DocumentedOrder[k] = name
DocRank(name) == CHOOSE k \in 1..Len(DocumentedOrder) : DocumentedOrder[k] = name
KindRank(kind) == CASE kind = "combined" -> 1 [] kind = "title" -> 2 [] kind = "artist" -> 3
                    [] kind = "library" -> 4

SearchEnded == syncPc = "songs" /\ queries /= <<>>
LastQuery == queries[Len(queries)]
LastResult == results[Len(results)]

C26_NoSearchError ==
    /\ \A k \in 1..Len(results) :
          /\ results[k].MatchType /= MatchTypeError
          /\ results[k].MatchType = MatchTypeTitleArtist <=> results[k].PlexTrack /= Nil
          /\ results[k].MatchType = MatchTypeNone <=> results[k].PlexTrack = Nil
    /\ (failed /\ syncPc = "search") => ~LastQuery.found
    /\ (failed /\ SearchEnded /\ ~LastQuery.found) => LastQuery.strategy = "full library search"

C26_Witness ==
    /\ failed /\ SearchEnded /\ LastQuery.found /\ Len(results) = 2
    /\ results[1].MatchType = MatchTypeNone /\ results[2].MatchType = MatchTypeTitleArtist

RequestNames == [k \in 1..Len(requests) |-> requests[k].name]

\* the requests in the order the claim gives, for n tracks to add
InClaimedOrder(names, existed, n) ==
    /\ Len(names) >= 1 => names[1] = "GetPlaylists"
    /\ Len(names) >= 2 =>
          names[2] = (IF existed THEN "UpdatePlaylistMetadata" ELSE "CreatePlaylist")
    /\ Len(names) >= 3 => names[3] = "ClearPlaylist"
    /\ \A k \in 4..Len(names) :
          \/ names[k] = "AddTracksToPlaylist" /\ k <= 3 + n
          \/ names[k] = "SetPlaylistPoster" /\ k = Len(names) /\ k >= 5

\* C27: without a matched song no playlist request is issued; otherwise the requests
\* come after all searches, in the order GetPlaylists, UpdatePlaylistMetadata or
\* CreatePlaylist, ClearPlaylist, AddTracksToPlaylist, and a failed GetPlaylists,
\* CreatePlaylist or ClearPlaylist ends the call with an error and no further request.
C27_RequestOrder ==
    /\ requests /= <<>> =>
          /\ Len(results) = Len(songs) /\ MatchedIn(results) /= <<>>
          /\ syncPc \notin {"songs", "search"}
    /\ InClaimedOrder(RequestNames, playlistBefore /= NoPlaylist, Len(MatchedIn(results)))
    /\ \A k \in 1..Len(requests) :
          (~requests[k].ok /\ requests[k].name \in {"GetPlaylists", "CreatePlaylist", "ClearPlaylist"})
              => (k = Len(requests) /\ ReturnedError)
    /\ (Done /\ MatchedIn(results) = <<>>) => (requests = <<>> /\ syncErr = "nil")

C27_Witness ==
    /\ Done /\ syncErr = "nil" /\ Len(requests) = 6
    /\ requests[2] = Request("UpdatePlaylistMetadata", FALSE)
    /\ requests[6].name = "SetPlaylistPoster"

\* C28: when MatchSpotifyPlaylist returns an error for a name that had a playlist,
\* the playlist still holds the tracks it held before the call.
C28_FailedSyncKeepsTracks ==
    (ReturnedError /\ playlistBefore /= NoPlaylist)
        => (playlistExists /\ playlistTracks = TracksOfBefore(playlistBefore))

----------------------------------------------------------------------------
(* The claim about LoadWithOverrides *)

\* LoadWithOverrides has returned a Config
Loaded == cfgPc = "done" /\ cfgErr = "nil"

\* a source gives the variable a value
IsSet(v) == v /= Unset /\ v /= ""

\* the setting of the name key has the value the text v stands for
SettingIs(key, v) ==
    CASE key = "SPOTIFY_CLIENT_ID" -> config.ClientID = v
      [] key = "SPOTIFY_CLIENT_SECRET" -> config.ClientSecret = v
      [] key = "SPOTIFY_REDIRECT_URI" -> config.RedirectURI = v
      [] key = "SPOTIFY_USERNAME" -> config.Username = v
      [] key = "SPOTIFY_PLAYLIST_ID" -> config.PlaylistIDs = parseCommaSeparatedList(v)
      [] key = "SPOTIFY_PLAYLIST_EXCLUDED_ID" ->
            config.ExcludedPlaylistIDs = parseCommaSeparatedList(v)
      [] key = "PLEX_URL" -> config.URL = v
      [] key = "PLEX_TOKEN" -> config.Token = v
      [] key = "PLEX_LIBRARY_SECTION_ID" -> Atoi(v) = <<config.LibrarySectionID>>
      [] key = "PLEX_SERVER_ID" -> config.ServerID = v

OverrideWins(key) == IsSet(overrides[key]) => SettingIs(key, overrides[key])

EnvFileBeatsSystem(key) ==
    (~IsSet(overrides[key]) /\ envFileExists /\ IsSet(envFile[key]) /\ IsSet(sysEnv[key]))
        => SettingIs(key, envFile[key])

\* C24: after LoadWithOverrides a non-empty CLI override determines the setting, and a
\* variable set both in the .env file and in the system environment, with no CLI flag,
\* has the value of the .env file.
C24_Hierarchy ==
    Loaded => \A key \in CfgKeySet : OverrideWins(key) /\ EnvFileBeatsSystem(key)

----------------------------------------------------------------------------
(* The claim about PopulateMusicBrainzIDs *)

\* the lookups made for the song at position n, in order
LookupsOf(n) == LET ForSong(e) == e.song = n IN SelectSeq(mbLog, ForSong)

GaveID(e) == ~e.err /\ e.id /= ""

\* the first ID the lookups of a song obtained, "" when none did
FirstID(lookups) ==
    IF \E j \in 1..Len(lookups) : GaveID(lookups[j])
    THEN lookups[CHOOSE j \in 1..Len(lookups) :
                    GaveID(lookups[j]) /\ \A i \in 1..(j - 1) : ~GaveID(lookups[i])].id
    ELSE ""

IsrcFirst(n) ==
    LET lookups == LookupsOf(n)
    IN  /\ mbSongs[n].ISRC /= "" => (lookups /= <<>> /\ lookups[1].kind = "isrc")
        /\ \A j \in 1..Len(lookups) : lookups[j].kind = "isrc" =>
                (j = 1 /\ mbSongs[n].ISRC /= "")

FallbackOnlyIfNeeded(n) ==
    LET lookups == LookupsOf(n)
    IN  \A j \in 1..Len(lookups) : lookups[j].kind = "search" =>
            \/ mbSongs[n].ISRC = "" /\ j = 1
            \/ j = 2 /\ lookups[1].kind = "isrc" /\ ~GaveID(lookups[1])

\* the lookups are made song by song
SongBySong == \A j \in 1..(Len(mbLog) - 1) : mbLog[j].song <= mbLog[j + 1].song

\* C25: for every song processed, the ISRC query comes first when the song has an ISRC,
\* the artist/title query is made only when the ISRC is empty or the ISRC query failed
\* or gave no ID, and the song's MusicBrainzID is the first ID obtained, "" when none
\* was; a failed lookup of one song leaves the other songs' lookups as they are.
C25_IsrcThenArtistTitle ==
    /\ SongBySong
    /\ \A n \in 1..mbIdx :
          /\ IsrcFirst(n)
          /\ FallbackOnlyIfNeeded(n)
          /\ mbSongs[n].MusicBrainzID = FirstID(LookupsOf(n))

\* both lookups of the first song failed and the second song got its ID from the
\* artist/title query after its ISRC query gave none
C25_Witness ==
    /\ mbPc = "done" /\ Len(mbSongs) = 2
    /\ Len(LookupsOf(1)) = 2 /\ LookupsOf(1)[1].err /\ LookupsOf(1)[2].err
    /\ mbSongs[1].MusicBrainzID = ""
    /\ Len(LookupsOf(2)) = 2 /\ ~GaveID(LookupsOf(2)[1])
    /\ mbSongs[2].MusicBrainzID = "mbid-search"

----------------------------------------------------------------------------
(* The claim about processPlaylists *)

\* C29: processPlaylists calls processPlaylist for every playlist of its list once and
\* in list order, whether earlier playlists failed or not, and returns nil.
C29_EveryPlaylistAttempted ==
    /\ attempted = SubSeq(playlistMetas, 1, Len(attempted))
    /\ ppPc = "range" => Len(attempted) = playlistIndex
    /\ ppPc = "done" => (attempted = playlistMetas /\ ppErr = "nil")

\* the first two playlists failed and the third was processed
C29_Witness ==
    /\ ppPc = "done" /\ Len(playlistMetas) = 3
    /\ logged = SubSeq(playlistMetas, 1, 2)
    /\ attempted = playlistMetas

----------------------------------------------------------------------------
(* The claim about the second guard of FindBestMatch *)

FirstGuardAt(k) ==
    RLess(<<9, 10>>, T(k)) /\ RLess(A(k), <<3, 10>>) /\ ~VariousAt(k)
SecondGuardAt(k) ==
    RLess(<<7, 10>>, T(k)) /\ RLess(A(k), <<2, 10>>) /\ ~VariousAt(k)

RECURSIVE ScanWithFirstGuard(_, _, _, _)
\* what the second loop and the threshold test return from position k on when only the
\* first guard rejects candidates
ScanWithFirstGuard(k, best, score, artistSimilarity) ==
    IF k > Len(tracks)
    THEN IF RLeq(<<7, 10>>, score) THEN best ELSE Nil
    ELSE IF FirstGuardAt(k)
    THEN ScanWithFirstGuard(k + 1, best, score, artistSimilarity)
    ELSE IF PerfectAt(k)
    THEN <<tracks[k]>>
    ELSE IF RLess(score, Score(k)) \/ (Score(k) = score /\ RLess(artistSimilarity, A(k)))
    THEN ScanWithFirstGuard(k + 1, <<tracks[k]>>, Score(k), A(k))
    ELSE ScanWithFirstGuard(k + 1, best, score, artistSimilarity)

\* the track FindBestMatch would return without its second guard
WithoutSecondGuard ==
    IF HasExact THEN <<tracks[FirstExact]>> ELSE ScanWithFirstGuard(1, Nil, Zero, Zero)

\* C30: a returned track whose artist is not "various artists" has artist similarity
\* >= 0.2 with the target, and the returned track is the one FindBestMatch would return
\* with the first guard and the 0.7 threshold alone.
C30_SecondGuardRedundant ==
    Returned =>
        /\ (result /= Nil /\ LowerTrim(result[1].Artist) /= "various artists")
                => RLeq(<<2, 10>>, ArtistSim(result[1]))
        /\ result = WithoutSecondGuard

\* a candidate that only the second guard rejects is among the tracks, and another
\* track is returned as the best match
C30_Witness ==
    /\ pc = "ret_best"
    /\ LowerTrim(result[1].Artist) /= "various artists"
    /\ \E k \in Positions : SecondGuardAt(k) /\ ~FirstGuardAt(k)

====
